---- MODULE Spec2Model ----
(***************************************************************************)
(* Invoice parsing pipeline of the backend:                                *)
(*   app/services/llm_invoice_parser.py       LLMInvoiceParser             *)
(*   app/services/improved_invoice_parser.py  ImprovedInvoiceParser        *)
(*                                                                         *)
(* Text is modelled at the level of whitespace-separated tokens: a text is *)
(* a non-empty sequence of lines (the pieces between '\n'), a line is a    *)
(* sequence of tokens written with single spaces between them and no       *)
(* leading or trailing blanks.  The empty string is the text with one      *)
(* empty line.  Every regular expression and substring test of the source  *)
(* is translated to a predicate on tokens; what a test sees inside a token *)
(* is given by the feature tables below for the tokens of the vocabulary.  *)
(* Amounts and other floats are integers counted in hundredths.            *)
(* Optional values (Python None, or a key that is absent) are sequences of *)
(* length 0 or 1.                                                          *)
(***************************************************************************)
EXTENDS Integers, Sequences, FiniteSets, TLC

None == <<>>
Some(x) == <<x>>

Min(a, b) == IF a <= b THEN a ELSE b

-----------------------------------------------------------------------------
(* Token features *)

\* tokens t with  word in t.upper()  for a word of llm_invoice_parser.py:362
VendorWordToks == {"DISTRIBUTORS", "FARM"}

\* tokens t with  'total' in t.lower()
TotalToks == {"TOTAL:", "Subtotal:", "Total"}

\* tokens t with  'subtotal' in t.lower()
SubtotalToks == {"Subtotal:"}

\* tokens in which  \$([0-9,]+\.?[0-9]*)  matches, all of them "$" followed
\* by the group; the other tokens of the vocabulary hold no '$'
DollarToks == {"$2.10", "$378.85", "$427.95", "$0.00", "$5.00", "$,"}

\* group(1) of  \$([0-9,]+\.?[0-9]*)  in a dollar token
DollarGroup(t) ==
  CASE t = "$2.10" -> "2.10"
    [] t = "$378.85" -> "378.85"
    [] t = "$427.95" -> "427.95"
    [] t = "$0.00" -> "0.00"
    [] t = "$5.00" -> "5.00"
    [] t = "$," -> ","

\* float(s.replace(',', '')) in hundredths; None where it raises ValueError
ParseFloat(s) ==
  CASE s = "2.10" -> Some(210)
    [] s = "378.85" -> Some(37885)
    [] s = "427.95" -> Some(42795)
    [] s = "0.00" -> Some(0)
    [] s = "5.00" -> Some(500)
    [] s = "34.10" -> Some(3410)
    [] s = "10" -> Some(1000)
    [] s = "0" -> Some(0)
    [] s = "2025" -> Some(202500)
    [] s = "28" -> Some(2800)
    [] s = "28," -> Some(2800)
    [] s = "6" -> Some(600)
    [] OTHER -> None

\* the letters [A-Za-z]{3,9} a token ends with: the longest run of at most 9
DateWord(t) ==
  CASE t \in {"June", "Bistro", "Kale", "Beef", "Qty", "Unit", "Item", "Tax",
              "due", "Local", "Total", "ORGANIC", "FARM", "ACME"} -> Some(t)
    [] t = "DISTRIBUTORS" -> Some("TRIBUTORS")
    [] t = "Description" -> Some("scription")
    [] OTHER -> None

\* tokens that are  [0-9]{1,2},?  as a whole
DayToks == {"28,", "28", "10", "0"}

\* the digits [0-9]{2,4} a token starts with
YearPrefix(t) ==
  CASE t \in {"2025", "28", "10"} -> Some(t)
    [] t = "28," -> Some("28")
    [] t = "34.10" -> Some("34")
    [] OTHER -> None

-----------------------------------------------------------------------------
(* Texts *)

RECURSIVE SumLen(_)
SumLen(line) ==
  IF line = <<>> THEN 0 ELSE Len(Head(line)) + SumLen(Tail(line))

\* len(line): the tokens and the single blanks between them
LineLen(line) == IF line = <<>> THEN 0 ELSE SumLen(line) + Len(line) - 1

\* ' '.join of the tokens of a line
RECURSIVE JoinToks(_)
JoinToks(line) ==
  IF line = <<>> THEN ""
  ELSE IF Len(line) = 1 THEN Head(line)
  ELSE Head(line) \o " " \o JoinToks(Tail(line))

RECURSIVE TextLenFrom(_, _, _)
TextLenFrom(text, i, j) ==
  IF i > j THEN 0
  ELSE LineLen(text[i]) + (IF i < j THEN 1 ELSE 0) + TextLenFrom(text, i + 1, j)

\* len(text)
TextLen(text) == TextLenFrom(text, 1, Len(text))

\* len(text.strip()): from the first to the last line that holds a token
StripLen(text) ==
  LET full == {i \in 1..Len(text) : text[i] # <<>>}
  IN IF full = {} THEN 0
     ELSE LET lo == CHOOSE i \in full : \A k \in full : i <= k
              hi == CHOOSE i \in full : \A k \in full : k <= i
          IN TextLenFrom(text, lo, hi)

\* text.split('\n')
SplitLines(text) == text

-----------------------------------------------------------------------------
(* LLMInvoiceParser._fallback_parse *)

\* lines[:5]: the first line with len > 5 holding a vendor word, whole
FallbackVendor(lines) ==
  LET hit == {i \in 1..Min(5, Len(lines)) :
                /\ LineLen(lines[i]) > 5
                /\ \E k \in 1..Len(lines[i]) : lines[i][k] \in VendorWordToks}
  IN IF hit = {} THEN None
     ELSE Some(JoinToks(lines[CHOOSE i \in hit : \A k \in hit : i <= k]))

\* re.search(r'\$([0-9,]+\.?[0-9]*)', line): the first dollar token's group
FirstDollarGroup(line) ==
  LET hit == {k \in 1..Len(line) : line[k] \in DollarToks}
  IN IF hit = {} THEN None
     ELSE Some(DollarGroup(line[CHOOSE k \in hit : \A m \in hit : k <= m]))

\* what the conversion at llm_invoice_parser.py:373 does with a line:
\* "skip" (no total, no '$', or no match), "fail" (float raised) or "ok"
FallbackTotalLine(line) ==
  IF ~ (/\ \E k \in 1..Len(line) : line[k] \in TotalToks
        /\ \E k \in 1..Len(line) : line[k] \in DollarToks)
  THEN [k |-> "skip", v |-> 0]
  ELSE LET g == FirstDollarGroup(line)
       IN IF g = None THEN [k |-> "skip", v |-> 0]
          ELSE IF ParseFloat(g[1]) = None THEN [k |-> "fail", v |-> 0]
          ELSE [k |-> "ok", v |-> ParseFloat(g[1])[1]]

\* a mutant of FallbackFloatGuard: the conversion is not guarded
FallbackFloatGuardMissing(line) == FALSE

\* the bare  except: pass  around the conversion (llm_invoice_parser.py:372)
FallbackFloatGuard(line) == TRUE

\* the scan of reversed(lines): [raised, total]
RECURSIVE FallbackTotalFrom(_, _)
FallbackTotalFrom(lines, i) ==
  IF i < 1 THEN [raised |-> FALSE, total |-> None]
  ELSE LET r == FallbackTotalLine(lines[i])
       IN IF r.k = "ok" THEN [raised |-> FALSE, total |-> Some(r.v)]
          ELSE IF r.k = "fail" /\ ~ FallbackFloatGuard(lines[i])
                 THEN [raised |-> TRUE, total |-> None]
          ELSE FallbackTotalFrom(lines, i - 1)

FallbackTotal(lines) == FallbackTotalFrom(lines, Len(lines))

\* the match of  ([A-Za-z]{3,9}\s+[0-9]{1,2},?\s+[0-9]{2,4})  that starts
\* leftmost in a line: group(1), or None
DateMatchAt(line, k) ==
  /\ k + 2 <= Len(line)
  /\ DateWord(line[k]) # None
  /\ line[k + 1] \in DayToks
  /\ YearPrefix(line[k + 2]) # None

DatePattern1(line) ==
  LET hit == {k \in 1..Len(line) : DateMatchAt(line, k)}
  IN IF hit = {} THEN None
     ELSE LET k == CHOOSE m \in hit : \A n \in hit : m <= n
          IN Some(DateWord(line[k])[1] \o " " \o line[k + 1] \o " "
                    \o YearPrefix(line[k + 2])[1])

\* lines[:10]: the raw match of the first line that has one
FallbackDate(lines) ==
  LET hit == {i \in 1..Min(10, Len(lines)) : DatePattern1(lines[i]) # None}
  IN IF hit = {} THEN None
     ELSE DatePattern1(lines[CHOOSE i \in hit : \A k \in hit : i <= k])

\* parsing_confidence 0.3, in hundredths
FallbackConfidence == 30

\* an empty list under each new category, then the items appended in order
\* (llm_invoice_parser.py:342-347, improved_invoice_parser.py:513-518)
Categorize(items) ==
  [c \in {items[i].category : i \in 1..Len(items)} |->
     LET Same(it) == it.category = c IN SelectSeq(items, Same)]

\* the dictionary every parse returns; an absent key is None in "success",
\* "parsing_method", "llm_error" and "regex_result"
ResultRec(success, vendor, total, date, items, conf) ==
  [success |-> success, vendor_name |-> vendor, total_amount |-> total,
   invoice_date |-> date, items |-> items, parsing_confidence |-> conf,
   categorized_items |-> Categorize(items), item_count |-> Len(items),
   parsing_method |-> None, llm_error |-> None, regex_result |-> None]

\* a mutant of FallbackParse: the line of the total is reported as an item
FallbackParseWithItems(ocr_text) ==
  LET lines == SplitLines(ocr_text)
      t == FallbackTotal(lines)
  IN [raised |-> t.raised,
      value |-> ResultRec(Some(TRUE), FallbackVendor(lines), t.total,
                          FallbackDate(lines),
                          IF t.total = None THEN <<>>
                          ELSE <<[name |-> "Total", quantity |-> 100, unit |-> "",
                                  price |-> t.total[1], category |-> "other",
                                  confidence |-> FallbackConfidence]>>,
                          FallbackConfidence)]

\* [raised, value]: raised when an exception leaves _fallback_parse
FallbackParse(ocr_text) ==
  LET lines == SplitLines(ocr_text)
      t == FallbackTotal(lines)
  IN [raised |-> t.raised,
      value |-> ResultRec(Some(TRUE), FallbackVendor(lines), t.total,
                          FallbackDate(lines), <<>>, FallbackConfidence)]

\* LLMInvoiceParser._empty_result
LlmEmptyResult == ResultRec(Some(TRUE), None, None, None, <<>>, 0)

-----------------------------------------------------------------------------
(* ImprovedInvoiceParser._extract_total *)

\* tokens that end with  TOTAL[:]  (re.IGNORECASE)
TotalColonToks == {"TOTAL:", "Subtotal:"}

\* tokens that end with  TOTAL  (re.IGNORECASE) and are followed by a blank
TotalEndToks == {"Total"}

\* group(1) of  ([0-9,]+\.?[0-9]*)  at the start of a token without '$'
AmountGroup(t) ==
  CASE t \in {"34.10", "10", "28,", "28", "2025", "0"} -> Some(t)
    [] t = "6/28/2025" -> Some("6")
    [] OTHER -> None

\* group(1) of  \$?([0-9,]+\.?[0-9]*)  at the start of a token
OptDollarGroup(t) == IF t \in DollarToks THEN Some(DollarGroup(t)) ELSE AmountGroup(t)

\* the least element of a non-empty set of positions
Least(S) == CHOOSE k \in S : \A m \in S : k <= m

\* amount_str of the leftmost match, in a sequence of tokens, of a pattern
\* "a token of `heads`, blanks, the amount": [pos, group], pos = 0 for no
\* match; `dollar` says the '$' is required
HeadAmount(toks, heads, dollar) ==
  LET hit == {k \in 1..(Len(toks) - 1) :
                /\ toks[k] \in heads
                /\ IF dollar THEN toks[k + 1] \in DollarToks
                   ELSE OptDollarGroup(toks[k + 1]) # None}
  IN IF hit = {} THEN [pos |-> 0, group |-> ""]
     ELSE [pos |-> Least(hit) + 1, group |-> OptDollarGroup(toks[Least(hit) + 1])[1]]

\* the matches of total_patterns_extended in one line, in the order of the
\* list (improved_invoice_parser.py:134-142); 'Amount Due:' and 'Balance:'
\* are not in the vocabulary
LineTotalMatches(line) ==
  << HeadAmount(line, TotalColonToks, FALSE),
     HeadAmount(line, TotalColonToks, FALSE),
     HeadAmount(line, TotalColonToks, TRUE),
     HeadAmount(line, TotalEndToks, TRUE),
     IF line # <<>> /\ line[Len(line)] \in DollarToks
       THEN [pos |-> Len(line), group |-> DollarGroup(line[Len(line)])]
       ELSE [pos |-> 0, group |-> ""] >>

\* the first match of a list whose amount float() accepts: None or the amount
RECURSIVE FirstAmount(_)
FirstAmount(ms) ==
  IF ms = <<>> THEN None
  ELSE IF Head(ms).pos # 0 /\ ParseFloat(Head(ms).group) # None
    THEN Some([pos |-> Head(ms).pos, amount |-> ParseFloat(Head(ms).group)[1]])
  ELSE FirstAmount(Tail(ms))

HasSubtotal(line) == \E k \in 1..Len(line) : line[k] \in SubtotalToks

\* a mutant of SkipsLine: subtotal lines are scanned like the others
SkipsNoLine(line) == FALSE

\* the test at improved_invoice_parser.py:130
SkipsLine(line) == HasSubtotal(line)

\* the bottom-up scan (improved_invoice_parser.py:126-153)
RECURSIVE ScanTotalFrom(_, _)
ScanTotalFrom(lines, i) ==
  IF i < 1 THEN None
  ELSE IF SkipsLine(lines[i]) THEN ScanTotalFrom(lines, i - 1)
  ELSE LET a == FirstAmount(LineTotalMatches(lines[i]))
       IN IF a # None THEN Some([line |-> i, amount |-> a[1].amount])
          ELSE ScanTotalFrom(lines, i - 1)

\* ' '.join(lines) as tokens, and the line each token comes from
RECURSIVE Flatten(_)
Flatten(lines) ==
  IF lines = <<>> THEN <<>> ELSE Head(lines) \o Flatten(Tail(lines))

RECURSIVE LineOfToken(_, _)
LineOfToken(lines, k) ==
  IF k <= Len(Head(lines)) THEN 1 ELSE 1 + LineOfToken(Tail(lines), k - Len(Head(lines)))

\* the search over all_text (improved_invoice_parser.py:156-171)
GlobalTotal(lines) ==
  LET flat == Flatten(lines)
      a == FirstAmount(<< HeadAmount(flat, TotalColonToks, TRUE),
                          HeadAmount(flat, TotalColonToks, TRUE) >>)
  IN IF a = None THEN None
     ELSE Some([line |-> LineOfToken(lines, a[1].pos), amount |-> a[1].amount])

\* ImprovedInvoiceParser._extract_total: the amount (None if none), the line
\* the amount stands in (0 if none) and the search that found it
ExtractTotal(lines) ==
  LET s == ScanTotalFrom(lines, Len(lines))
      g == GlobalTotal(lines)
  IN IF s # None THEN [total |-> Some(s[1].amount), line |-> s[1].line, by |-> "scan"]
     ELSE IF g # None THEN [total |-> Some(g[1].amount), line |-> g[1].line, by |-> "global"]
     ELSE [total |-> None, line |-> 0, by |-> "none"]

-----------------------------------------------------------------------------
(* The model's output as json.loads gives it *)

\* a JSON value where the code wants a number: absent key, null, a number,
\* a string float() accepts, a string it rejects, an integer too large for
\* a float
JNumKinds == {"absent", "null", "num", "numstr", "badstr", "huge"}

\* a JSON value where the code wants a string: absent key, null, a string
JStrKinds == {"absent", "null", "str"}

\* float(x) of a JSON value, `dflt` for an absent key: the exception raised
\* ("none" if none) and the value
Float(j, dflt) ==
  CASE j.k = "absent" -> [exc |-> "none", v |-> dflt]
    [] j.k = "null" -> [exc |-> "TypeError", v |-> 0]
    [] j.k = "num" -> [exc |-> "none", v |-> j.n]
    [] j.k = "numstr" -> [exc |-> "none", v |-> j.n]
    [] j.k = "badstr" -> [exc |-> "ValueError", v |-> 0]
    [] j.k = "huge" -> [exc |-> "OverflowError", v |-> 0]

\* s.strip() and s.lower() on the strings of the vocabulary
Strip(s) ==
  CASE s = " " -> ""
    [] s = "Kale " -> "Kale"
    [] s = "beef " -> "beef"
    [] OTHER -> s

Lower(s) ==
  CASE s = "Protein" -> "protein"
    [] s = "LB" -> "lb"
    [] s = "Ground Beef" -> "ground beef"
    [] s = "Local Tomato" -> "local tomato"
    [] s = "Organic Local Spinach" -> "organic local spinach"
    [] s = "Imported Salmon" -> "imported salmon"
    [] s = "Quinoa" -> "quinoa"
    [] s = "Green Beans" -> "green beans"
    [] s = "Oil" -> "oil"
    [] s = "Beef " -> "beef "
    [] s = "Beef" -> "beef"
    [] s = "Kale" -> "kale"
    [] OTHER -> s

\* str(x) of a JSON value, `dflt` for an absent key
Str(j, dflt) ==
  CASE j.k = "absent" -> dflt
    [] j.k = "null" -> "None"
    [] j.k = "str" -> j.s

\* the exceptions the item loop catches (llm_invoice_parser.py:335)
ItemLoopCatches == {"ValueError", "TypeError"}

\* the first exception of a list of float() results, in evaluation order
RECURSIVE FirstExc(_)
FirstExc(fs) ==
  IF fs = <<>> THEN "none"
  ELSE IF Head(fs).exc # "none" THEN Head(fs).exc
  ELSE FirstExc(Tail(fs))

\* the dictionary display at llm_invoice_parser.py:321-329
CleanedItem(item) ==
  LET q == Float(item.quantity, 100)
      p == Float(item.price, 0)
      c == Float(item.confidence, 80)
  IN [exc |-> FirstExc(<<q, p, c>>),
      item |-> [name |-> Strip(Str(item.name, "Unknown Item")),
                quantity |-> q.v,
                unit |-> Strip(Lower(Str(item.unit, "each"))),
                price |-> p.v,
                category |-> Strip(Lower(Str(item.category, "other"))),
                confidence |-> c.v]]

\* a mutant of KeepItem: the price test is lost
KeepItemAnyPrice(ci) == ci.name # ""

\* a mutant of KeepItem: the quantity is tested as well
KeepItemPositiveQuantity(ci) == ci.name # "" /\ ci.price > 0 /\ ci.quantity > 0

\* the test at llm_invoice_parser.py:332
KeepItem(ci) == ci.name # "" /\ ci.price > 0

\* the loop over items: [raised, items]; an exception the loop does not
\* catch leaves _validate_and_clean_data
RECURSIVE ValidItemsFrom(_, _, _)
ValidItemsFrom(items, i, acc) ==
  IF i > Len(items) THEN [raised |-> FALSE, items |-> acc]
  ELSE IF ~ items[i].isdict THEN ValidItemsFrom(items, i + 1, acc)
  ELSE LET c == CleanedItem(items[i])
       IN IF c.exc = "none"
            THEN ValidItemsFrom(items, i + 1,
                   IF KeepItem(c.item) THEN Append(acc, c.item) ELSE acc)
          ELSE IF c.exc \in ItemLoopCatches
            THEN ValidItemsFrom(items, i + 1, acc)
          ELSE [raised |-> TRUE, items |-> <<>>]

\* the exceptions caught around float(total) (llm_invoice_parser.py:309)
TotalCatches == {"ValueError", "TypeError"}

\* LLMInvoiceParser._validate_and_clean_data: [raised, value]
\* data.items is [k, v]: "absent", "list" (v its elements; a string or an
\* object iterates as non-dict elements) or "notiterable" (null, a number)
ValidateAndCleanData(data) ==
  LET t == Float(data.total_amount, 0)
      total == IF data.total_amount.k \in {"absent", "null"} THEN None
               ELSE IF t.exc = "none" THEN Some(t.v) ELSE None
      totalRaises == /\ data.total_amount.k \notin {"absent", "null"}
                     /\ t.exc \notin TotalCatches \cup {"none"}
      its == CASE data.items.k = "absent" -> [raised |-> FALSE, items |-> <<>>]
               [] data.items.k = "notiterable" -> [raised |-> TRUE, items |-> <<>>]
               [] data.items.k = "list" -> ValidItemsFrom(data.items.v, 1, <<>>)
      conf == IF data.parsing_confidence = None THEN 80
              ELSE data.parsing_confidence[1]
  IN [raised |-> totalRaises \/ its.raised,
      value |-> ResultRec(None, data.vendor_name, total, data.invoice_date,
                          its.items, conf)]

\* the model's text output: "empty" (no 'response' key, or blank), "bare" (a
\* JSON document and nothing else), "fenced" (a JSON object in a code
\* fence), "prose" (a JSON object with text around it), "garbage"
OutputShapes == {"empty", "bare", "fenced", "prose", "garbage"}

\* LLMInvoiceParser._extract_json_from_response: [raised, doc].  json.loads
\* takes a bare document; otherwise re.findall is reached, whose pattern
\* uses (?R), which Python's re rejects with re.error.
\* doc.k is "object", "falsy" ({} [] 0 "" null) or "other" (a non-empty
\* list, a number, a string)
ExtractJsonFromResponse(out) ==
  IF out.shape = "bare" THEN [raised |-> FALSE, doc |-> Some(out.doc)]
  ELSE [raised |-> TRUE, doc |-> None]

-----------------------------------------------------------------------------
(* The external service *)

\* the model name of the constructor's default (llm_invoice_parser.py:13)
ConfiguredModel == "llama2"

\* name.split(':')[0]
BaseName(name) ==
  CASE name = "llama2:latest" -> "llama2"
    [] name = "mistral:7b" -> "mistral"
    [] name = "llama2-uncensored:latest" -> "llama2-uncensored"
    [] OTHER -> name

\* model in name (a substring test), for the model names and list entries
\* of the vocabulary
ModelInName(m, name) ==
  \/ m = BaseName(name)
  \/ m = "llama2" /\ name = "llama2-uncensored:latest"

\* what GET /api/tags does: "raise" (transport error or timeout), "non200",
\* "badbody" (the body is no JSON, or an entry has no 'name'), "models"
ProbeKinds == {"raise", "non200", "badbody", "models"}

ProbeResponse(k, names) == [k |-> k, names |-> names]

\* the handler at llm_invoice_parser.py:199
CheckCatches(k) == TRUE

\* a mutant of CheckOllamaAvailable: an empty model list counts as available
CheckOllamaAvailableEmptyOk(m, probe) ==
  [raised |-> FALSE, available |-> probe.k = "models", model |-> m]

\* a mutant of CheckOllamaAvailable: the substituted name keeps its tag
\* and the configured name is replaced even when it is listed
CheckOllamaAvailableAlwaysFirst(m, probe) ==
  IF probe.k = "models" /\ probe.names # <<>>
  THEN [raised |-> FALSE, available |-> TRUE, model |-> BaseName(probe.names[1])]
  ELSE [raised |-> FALSE, available |-> FALSE, model |-> m]

\* LLMInvoiceParser._check_ollama_available with self.model = m:
\* [raised, available, model], model the value of self.model afterwards
CheckOllamaAvailable(m, probe) ==
  IF probe.k \in {"raise", "badbody"}
  THEN [raised |-> ~ CheckCatches(probe.k), available |-> FALSE, model |-> m]
  ELSE IF probe.k = "non200"
  THEN [raised |-> FALSE, available |-> FALSE, model |-> m]
  ELSE IF \E i \in 1..Len(probe.names) : ModelInName(m, probe.names[i])
  THEN [raised |-> FALSE, available |-> TRUE, model |-> m]
  ELSE IF probe.names # <<>>
  THEN [raised |-> FALSE, available |-> TRUE, model |-> BaseName(probe.names[1])]
  ELSE [raised |-> FALSE, available |-> FALSE, model |-> m]

\* what POST /api/generate does: "raise" (transport error or timeout),
\* "non200", "nojson" (response.json() raises), "ok" with the model's output
GenKinds == {"raise", "non200", "nojson", "ok"}

NoDoc == [k |-> "falsy"]

GenResponse(k, shape, doc) == [k |-> k, out |-> [shape |-> shape, doc |-> doc]]

\* a mutant of LlmParseCatches: the handler is missing
LlmParseCatchesNothing(k) == FALSE

\* the handler at llm_invoice_parser.py:122
LlmParseCatches(k) == TRUE

\* a mutant of LlmParseWithPrompt: the validated data of a bare object is
\* returned even when validation raised
LlmParseWithPromptKeepsPartial(resp) ==
  IF resp.k = "ok" /\ resp.out.shape = "bare" /\ resp.out.doc.k = "object"
  THEN [raised |-> FALSE,
        value |-> Some(ValidateAndCleanData(resp.out.doc.data).value)]
  ELSE [raised |-> FALSE, value |-> None]

\* LLMInvoiceParser._llm_parse_with_prompt on the response it receives:
\* [raised, value], value None or the validated data
LlmParseWithPrompt(resp) ==
  LET caught == [raised |-> ~ LlmParseCatches(resp.k), value |-> None]
      null == [raised |-> FALSE, value |-> None]
  IN IF resp.k \in {"raise", "nojson"} THEN caught
     ELSE IF resp.k = "non200" THEN null
     ELSE IF resp.out.shape = "empty" THEN null
     ELSE LET ej == ExtractJsonFromResponse(resp.out)
          IN IF ej.raised THEN caught
             ELSE IF ej.doc = None \/ ej.doc[1].k = "falsy" THEN null
             ELSE IF ej.doc[1].k = "other" THEN caught
             ELSE LET v == ValidateAndCleanData(ej.doc[1].data)
                  IN IF v.raised THEN caught
                     ELSE [raised |-> FALSE, value |-> Some(v.value)]

-----------------------------------------------------------------------------
(* LLMInvoiceParser.parse_invoice *)

\* the length below which the text is not parsed (llm_invoice_parser.py:34)
MinTextLen == 10

\* the guard at llm_invoice_parser.py:34
TooShort(ocr_text) == TextLen(ocr_text) = 0 \/ StripLen(ocr_text) < MinTextLen

\* llm_invoice_parser.py:50-51
RegexOnly(regex) == [regex EXCEPT !.parsing_method = Some("regex-only")]

\* llm_invoice_parser.py:66-67
RegexFallback(regex) == [regex EXCEPT !.parsing_method = Some("regex-fallback")]

\* llm_invoice_parser.py:70-72
RegexExcept(regex) ==
  [regex EXCEPT !.parsing_method = Some("regex-except"),
                !.llm_error = Some("error")]

\* a mutant of Hybrid: fields the heuristic stage found replace the model's
HybridHeuristicWins(parsed, regex) ==
  [parsed EXCEPT !.parsing_method = Some("llm+regex"),
                 !.regex_result = Some(regex),
                 !.vendor_name = IF regex.vendor_name # None
                                 THEN regex.vendor_name ELSE @]

\* llm_invoice_parser.py:61-63
Hybrid(parsed, regex) ==
  [parsed EXCEPT !.parsing_method = Some("llm+regex"),
                 !.regex_result = Some(regex)]

\* llm_invoice_parser.py:58-72: what parse_invoice returns once
\* _llm_parse_with_prompt has answered p = [raised, value]
AfterLlmParse(p, regex) ==
  IF p.raised THEN RegexExcept(regex)
  ELSE IF p.value # None THEN Hybrid(p.value[1], regex)
  ELSE RegexFallback(regex)

-----------------------------------------------------------------------------
(* Inputs *)

\* a single line of more than 500 characters is split before the rows are
\* read (improved_invoice_parser.py:203); the texts here stay below that
BigLineLen == 500

InScope(ocr_text) == TextLen(ocr_text) <= BigLineLen

EmptyText == << <<>> >>

ShortText == << <<"Kale">> >>

SampleInvoice ==
  << <<"ORGANIC", "HARVEST", "DISTRIBUTORS">>,
     <<"Bistro", "June", "28,", "2025">>,
     <<"Qty", "Unit", "Item", "Description", "Total">>,
     <<"10", "lb", "Kale", "(Organic)", "Local", "$2.10">>,
     <<"Subtotal:", "$378.85">>,
     <<"Tax", "34.10">>,
     <<"TOTAL:", "$427.95">> >>

ItemLineText == << <<"10", "lb", "Kale", "$2.10">> >>

BadTotalText == << <<"ACME", "FARM">>, <<"TOTAL:", "$,">> >>

Texts ==
  {t \in {EmptyText, ShortText, SampleInvoice, ItemLineText, BadTotalText} :
     InScope(t)}

JN(k, n) == [k |-> k, n |-> n]
JS(k, s) == [k |-> k, s |-> s]

DictItem(name, quantity, unit, price, category, confidence) ==
  [isdict |-> TRUE, name |-> name, quantity |-> quantity, unit |-> unit,
   price |-> price, category |-> category, confidence |-> confidence]

NonDictItem ==
  [isdict |-> FALSE, name |-> JS("absent", ""), quantity |-> JN("absent", 0),
   unit |-> JS("absent", ""), price |-> JN("absent", 0),
   category |-> JS("absent", ""), confidence |-> JN("absent", 0)]

GoodItem ==
  DictItem(JS("str", "Kale "), JN("num", 1000), JS("str", "LB"),
           JN("num", 210), JS("str", "Protein"), JN("num", 95))

ZeroPriceItem ==
  DictItem(JS("str", "Beef"), JN("num", 100), JS("str", "lb"),
           JN("num", 0), JS("str", "protein"), JN("absent", 0))

ZeroQuantityItem ==
  DictItem(JS("str", "Beef"), JN("num", 0), JS("str", "lb"),
           JN("num", 500), JS("str", "protein"), JN("absent", 0))

HugePriceItem ==
  DictItem(JS("str", "Beef"), JN("num", 100), JS("str", "lb"),
           JN("huge", 0), JS("str", "protein"), JN("absent", 0))

Payload(vendor, total, date, items, conf) ==
  [k |-> "object",
   data |-> [vendor_name |-> vendor, total_amount |-> total,
             invoice_date |-> date, items |-> items,
             parsing_confidence |-> conf]]

ItemList(items) == [k |-> "list", v |-> items]

Payloads ==
  { Payload(Some("Green Farm"), JN("num", 42795), Some("2025-06-28"),
            ItemList(<<GoodItem, ZeroPriceItem>>), Some(95)),
    Payload(None, JN("null", 0), None,
            ItemList(<<ZeroQuantityItem>>), None),
    Payload(Some("Green Farm"), JN("numstr", 500), None,
            ItemList(<<GoodItem, HugePriceItem>>), None),
    Payload(None, JN("badstr", 0), None,
            [k |-> "notiterable", v |-> <<>>], None) }

GenResponses ==
  { GenResponse("raise", "empty", NoDoc),
    GenResponse("non200", "empty", NoDoc),
    GenResponse("nojson", "empty", NoDoc),
    GenResponse("ok", "empty", NoDoc),
    GenResponse("ok", "garbage", NoDoc),
    GenResponse("ok", "bare", NoDoc),
    GenResponse("ok", "bare", [k |-> "other"]) }
  \cup {GenResponse("ok", "bare", d) : d \in Payloads}
  \cup {GenResponse("ok", "fenced", d) : d \in Payloads}

ProbeResponses ==
  { ProbeResponse("raise", <<>>),
    ProbeResponse("non200", <<>>),
    ProbeResponse("badbody", <<>>),
    ProbeResponse("models", <<>>),
    ProbeResponse("models", <<"llama2:latest">>),
    ProbeResponse("models", <<"mistral:7b">>),
    ProbeResponse("models", <<"mistral:7b", "llama2:latest">>),
    ProbeResponse("models", <<"llama2-uncensored:latest">>) }

-----------------------------------------------------------------------------
(* The parser instance of InvoiceProcessingService and the calls on it *)

\* the calls that may be in progress on the one parser instance
Callers == {1, 2}

\* parse_invoice calls started in a behaviour
MaxCalls == 2

VARIABLES
  model,         \* self.model of the parser instance
  ncalls,        \* calls started so far
  pc,            \* per caller: "idle", "probe", "generate", "done"
  text,          \* per caller: ocr_text of the call
  regex_result,  \* per caller: the local regex_result
  probe,         \* per caller: the answers of GET /api/tags in this call
  gen,           \* per caller: the answers of POST /api/generate in this call
  requests,      \* per caller: the model names sent to /api/generate
  outcome,       \* per caller: "none", "returned", "raised"
  result,        \* per caller: None or the returned dictionary
  arg,           \* the argument of a function that is run on its own
  ret,           \* None, or its return value
  invoices,      \* the rows of table "invoices", by id
  carbon,        \* the carbon service: its table, and what its calls answered
  background_tasks  \* the tasks added to BackgroundTasks and not yet run

parser == <<model, ncalls, pc, text, regex_result, probe, gen, requests,
            outcome, result>>

vars == <<parser, arg, ret, invoices, carbon, background_tasks>>

InitParser ==
  /\ model = ConfiguredModel
  /\ ncalls = 0
  /\ pc = [c \in Callers |-> "idle"]
  /\ text = [c \in Callers |-> EmptyText]
  /\ regex_result = [c \in Callers |-> None]
  /\ probe = [c \in Callers |-> <<>>]
  /\ gen = [c \in Callers |-> <<>>]
  /\ requests = [c \in Callers |-> <<>>]
  /\ outcome = [c \in Callers |-> "none"]
  /\ result = [c \in Callers |-> None]

\* the ids of the rows of table "invoices"
InvoiceIds == {1, 2}

\* no row has been added yet; error_message is an attribute the background
\* task sets on the object (class Invoice has no such column),
\* extracted_text records what recognition gave in that task, and
\* parsed_data is None or the dictionary, of which the keys parsing_method
\* and items are kept
NoInvoice ==
  [processing_status |-> "absent", error_message |-> None, ocr_text |-> None,
   vendor_name |-> None, total_amount |-> None, invoice_date |-> None,
   parsed_data |-> None, carbon_footprint |-> None, extracted_text |-> None]

InitDb ==
  /\ invoices = [i \in InvoiceIds |-> NoInvoice]
  /\ background_tasks = <<>>

\* self.carbon_intensities (carbon_service.py:7-53), in the order of the
\* dictionary; kg CO2e per kg in hundredths
CarbonIntensities ==
  << <<"beef", 6000>>,
     <<"ground beef", 6000>>,
     <<"steak", 6000>>,
     <<"lamb", 3920>>,
     <<"mutton", 3920>>,
     <<"pork", 1210>>,
     <<"bacon", 1210>>,
     <<"ham", 1210>>,
     <<"chicken", 690>>,
     <<"turkey", 1090>>,
     <<"fish", 610>>,
     <<"salmon", 1190>>,
     <<"tuna", 610>>,
     <<"cod", 290>>,
     <<"shrimp", 1180>>,
     <<"lobster", 2200>>,
     <<"cheese", 1350>>,
     <<"butter", 2380>>,
     <<"cream", 800>>,
     <<"milk", 320>>,
     <<"yogurt", 220>>,
     <<"eggs", 420>>,
     <<"rice", 400>>,
     <<"wheat", 140>>,
     <<"flour", 140>>,
     <<"pasta", 140>>,
     <<"bread", 130>>,
     <<"potato", 30>>,
     <<"sweet potato", 30>>,
     <<"tomato", 230>>,
     <<"local tomato", 70>>,
     <<"onion", 30>>,
     <<"local onion", 10>>,
     <<"lettuce", 350>>,
     <<"local lettuce", 80>>,
     <<"spinach", 200>>,
     <<"local spinach", 50>>,
     <<"carrot", 40>>,
     <<"local carrot", 10>>,
     <<"bell pepper", 300>>,
     <<"local bell pepper", 70>>,
     <<"apple", 40>>,
     <<"local apple", 10>>,
     <<"banana", 70>>,
     <<"orange", 40>>,
     <<"lemon", 60>>,
     <<"lime", 60>>,
     <<"olive oil", 540>>,
     <<"vegetable oil", 320>>,
     <<"vinegar", 90>>,
     <<"salt", 10>>,
     <<"sugar", 180>>,
     <<"basil", 210>>,
     <<"oregano", 200>>,
     <<"thyme", 200>>,
     <<"black pepper", 700>>,
     <<"garlic", 40>>,
     <<"organic", 80>>,
     <<"local", 30>>,
     <<"imported", 250>>,
     <<"default", 200>> >>

\* names of invoice items handed to the carbon service
ItemNames ==
  {"Ground Beef", "Local Tomato", "Organic Local Spinach", "Imported Salmon",
   "Quinoa", "Green Beans", "Oil", "Beef ", ""}

\* CarbonService(): the table as built; calls[n] is how often a name was
\* handed in ("never", "once", "more") and the answers it got
InitCarbon ==
  carbon = [carbon_intensities |-> CarbonIntensities,
            calls |-> [n \in ItemNames |-> [times |-> "never", answers |-> {}]]]

Init == InitParser /\ InitDb /\ InitCarbon /\ arg = None /\ ret = None

\* llm_invoice_parser.py:25-44: the call starts and runs the heuristic stage
ParseStart(c, t) ==
  /\ pc[c] \in {"idle", "done"}
  /\ ncalls < MaxCalls
  /\ ncalls' = ncalls + 1
  /\ text' = [text EXCEPT ![c] = t]
  /\ probe' = [probe EXCEPT ![c] = <<>>]
  /\ gen' = [gen EXCEPT ![c] = <<>>]
  /\ requests' = [requests EXCEPT ![c] = <<>>]
  /\ IF TooShort(t)
     THEN /\ pc' = [pc EXCEPT ![c] = "done"]
          /\ regex_result' = [regex_result EXCEPT ![c] = None]
          /\ outcome' = [outcome EXCEPT ![c] = "returned"]
          /\ result' = [result EXCEPT ![c] = Some(LlmEmptyResult)]
     ELSE LET f == FallbackParse(t)
          IN IF f.raised
             THEN /\ pc' = [pc EXCEPT ![c] = "done"]
                  /\ regex_result' = [regex_result EXCEPT ![c] = None]
                  /\ outcome' = [outcome EXCEPT ![c] = "raised"]
                  /\ result' = [result EXCEPT ![c] = None]
             ELSE /\ pc' = [pc EXCEPT ![c] = "probe"]
                  /\ regex_result' = [regex_result EXCEPT ![c] = Some(f.value)]
                  /\ outcome' = [outcome EXCEPT ![c] = "none"]
                  /\ result' = [result EXCEPT ![c] = None]
  /\ UNCHANGED <<model, arg, ret, invoices, carbon, background_tasks>>

\* llm_invoice_parser.py:47-51 with _check_ollama_available (171-202)
ProbeStep(c, r) ==
  /\ pc[c] = "probe"
  /\ LET a == CheckOllamaAvailable(model, r)
     IN /\ model' = a.model
        /\ probe' = [probe EXCEPT ![c] = Append(@, r)]
        /\ IF a.raised
           THEN /\ pc' = [pc EXCEPT ![c] = "done"]
                /\ outcome' = [outcome EXCEPT ![c] = "returned"]
                /\ result' = [result EXCEPT ![c] = Some(RegexExcept(regex_result[c][1]))]
           ELSE IF ~ a.available
           THEN /\ pc' = [pc EXCEPT ![c] = "done"]
                /\ outcome' = [outcome EXCEPT ![c] = "returned"]
                /\ result' = [result EXCEPT ![c] = Some(RegexOnly(regex_result[c][1]))]
           ELSE /\ pc' = [pc EXCEPT ![c] = "generate"]
                /\ UNCHANGED <<outcome, result>>
  /\ UNCHANGED <<ncalls, text, regex_result, gen, requests, arg, ret, invoices, carbon, background_tasks>>

\* a mutant of GenerateStep: after an extraction that failed the request is
\* sent again
GenerateStepRetries(c, g) ==
  /\ pc[c] = "generate"
  /\ requests' = [requests EXCEPT ![c] = Append(@, model)]
  /\ gen' = [gen EXCEPT ![c] = Append(@, g)]
  /\ IF LlmParseWithPrompt(g).value = None
     THEN UNCHANGED <<pc, outcome, result>>
     ELSE /\ pc' = [pc EXCEPT ![c] = "done"]
          /\ outcome' = [outcome EXCEPT ![c] = "returned"]
          /\ result' = [result EXCEPT ![c] =
                  Some(AfterLlmParse(LlmParseWithPrompt(g), regex_result[c][1]))]
  /\ UNCHANGED <<model, ncalls, text, regex_result, probe, arg, ret, invoices, carbon, background_tasks>>

\* llm_invoice_parser.py:53-72 with _llm_parse_with_prompt (74-124)
GenerateStep(c, g) ==
  /\ pc[c] = "generate"
  /\ requests' = [requests EXCEPT ![c] = Append(@, model)]
  /\ gen' = [gen EXCEPT ![c] = Append(@, g)]
  /\ pc' = [pc EXCEPT ![c] = "done"]
  /\ outcome' = [outcome EXCEPT ![c] = "returned"]
  /\ result' = [result EXCEPT ![c] =
                  Some(AfterLlmParse(LlmParseWithPrompt(g), regex_result[c][1]))]
  /\ UNCHANGED <<model, ncalls, text, regex_result, probe, arg, ret, invoices, carbon, background_tasks>>

Next ==
  \/ \E c \in Callers, t \in Texts : ParseStart(c, t)
  \/ \E c \in Callers, r \in ProbeResponses : ProbeStep(c, r)
  \/ \E c \in Callers, g \in GenResponses : GenerateStep(c, g)

Spec == Init /\ [][Next]_vars

-----------------------------------------------------------------------------
(* Claims on parse_invoice.  The tags of the specification are written as  *)
(* the code writes them: heuristic = 'regex-only', hybrid = 'llm+regex',   *)
(* hybrid-fallback = 'regex-fallback'.                                     *)

Done(c) == pc[c] = "done"

\* the heuristic stage's dictionary of caller c's text
HeuristicOf(c) == FallbackParse(text[c]).value

\* what _llm_parse_with_prompt answered in caller c's finished call
ExtractionOf(c) == LlmParseWithPrompt(gen[c][1])

\* the probe answers the specification calls "unavailable"
Unavailable(r) ==
  r.k \in {"raise", "non200"} \/ (r.k = "models" /\ r.names = <<>>)

\* C1: parse_invoice never raises to its caller and a finished call always
\* holds a returned dictionary, whatever the text and whatever the probe
\* and the generation request did.
C1_AlwaysReturns ==
  \A c \in Callers :
    /\ outcome[c] # "raised"
    /\ Done(c) => outcome[c] = "returned" /\ result[c] # None

\* C1 happens: calls have finished after a probe that raised, after a
\* generation request that raised, and after output that is no JSON
C1_Witness ==
  \E c, d \in Callers :
    /\ Done(c) /\ probe[c] # <<>> /\ probe[c][1].k = "raise"
    /\ Done(d) /\ gen[d] # <<>>
    /\ gen[d][1].k = "raise" \/ gen[d][1].out.shape = "garbage"
    /\ outcome[c] = "returned" /\ outcome[d] = "returned"

\* C3: once the probe of a call found the service unavailable, the call is
\* finished with the heuristic dictionary tagged 'regex-only' and has sent
\* no generation request.
C3_UnavailableHeuristicOnly ==
  \A c \in Callers :
    (probe[c] # <<>> /\ Unavailable(probe[c][1])) =>
      /\ Done(c)
      /\ result[c] = Some(RegexOnly(HeuristicOf(c)))
      /\ requests[c] = <<>>
      /\ gen[c] = <<>>

\* C3 happens: a call ended on an empty model list with a vendor found
C3_Witness ==
  \E c \in Callers :
    /\ Done(c) /\ probe[c] # <<>>
    /\ probe[c][1] = ProbeResponse("models", <<>>)
    /\ result[c] # None /\ result[c][1].vendor_name # None
    /\ result[c][1].parsing_method = Some("regex-only")

\* C4 as stated: when extraction answered null or raised, the result is the
\* heuristic dictionary tagged 'regex-fallback' and holds a failure reason.
C4_FallbackRecordsReason ==
  \A c \in Callers :
    (Done(c) /\ gen[c] # <<>>
       /\ (ExtractionOf(c).raised \/ ExtractionOf(c).value = None)) =>
      /\ result[c][1].parsing_method = Some("regex-fallback")
      /\ result[c][1].llm_error # None
      /\ result[c][1].vendor_name = HeuristicOf(c).vendor_name
      /\ result[c][1].total_amount = HeuristicOf(c).total_amount
      /\ result[c][1].invoice_date = HeuristicOf(c).invoice_date

\* C5: when extraction answered a dictionary, the result holds its vendor,
\* total, date and items, is tagged 'llm+regex' and carries the untouched
\* heuristic dictionary under 'regex_result'.
C5_HybridKeepsExtraction ==
  \A c \in Callers :
    (Done(c) /\ gen[c] # <<>> /\ ExtractionOf(c).value # None) =>
      LET v == ExtractionOf(c).value[1]
          r == result[c][1]
      IN /\ r.vendor_name = v.vendor_name
         /\ r.total_amount = v.total_amount
         /\ r.invoice_date = v.invoice_date
         /\ r.items = v.items
         /\ r.parsing_method = Some("llm+regex")
         /\ r.regex_result = Some(HeuristicOf(c))

\* C5 happens: the model and the heuristic stage disagree on the vendor
C5_Witness ==
  \E c \in Callers :
    /\ Done(c) /\ gen[c] # <<>> /\ ExtractionOf(c).value # None
    /\ HeuristicOf(c).vendor_name # None
    /\ ExtractionOf(c).value[1].vendor_name # None
    /\ ExtractionOf(c).value[1].vendor_name # HeuristicOf(c).vendor_name
    /\ result[c][1].items # <<>>

\* C6 as stated: the empty text gives, with no request to the service, the
\* empty dictionary with confidence 0.0 tagged as heuristic ('regex-only').
C6_EmptyTextTaggedHeuristic ==
  \A c \in Callers :
    (Done(c) /\ text[c] = EmptyText) =>
      /\ outcome[c] = "returned"
      /\ probe[c] = <<>> /\ requests[c] = <<>>
      /\ result[c][1].items = <<>>
      /\ result[c][1].vendor_name = None
      /\ result[c][1].total_amount = None
      /\ result[c][1].invoice_date = None
      /\ result[c][1].parsing_confidence = 0
      /\ result[c][1].parsing_method = Some("regex-only")

\* C10 as stated: the model name a call sends depends only on the
\* configuration and on that call's own probe answer.
C10_RequestModelIsOwn ==
  \A c \in Callers :
    requests[c] # <<>> =>
      requests[c][1] = CheckOllamaAvailable(ConfiguredModel, probe[c][1]).model

-----------------------------------------------------------------------------
(* ImprovedInvoiceParser._extract_total on its own *)

\* the lines a sequence handed to _extract_total is made of
TotalLines ==
  { <<"Subtotal:", "$378.85">>, <<"TOTAL:", "$427.95">>, <<"Tax", "34.10">>,
    <<"TOTAL:", "$,">>, <<"$5.00", "due">>, <<"TOTAL:">>,
    <<"Total", "$5.00">>, <<"Kale", "$2.10">> }

\* lines in a sequence handed to _extract_total
MaxLines == 3

SeqsUpTo(S, n) == UNION {[1..m -> S] : m \in 1..n}

InitTotal == InitParser /\ InitDb /\ InitCarbon /\ arg \in SeqsUpTo(TotalLines, MaxLines) /\ ret = None

\* total_amount = self._extract_total(lines)
ExtractTotalStep ==
  /\ ret = None
  /\ ret' = Some(ExtractTotal(arg))
  /\ UNCHANGED <<parser, arg, invoices, carbon, background_tasks>>

SpecTotal == InitTotal /\ [][ExtractTotalStep]_vars

\* C9 as stated: the total is never an amount standing in a line that
\* contains "subtotal", in the scan or in the search over the joined text;
\* after "Subtotal: $378.85" then "TOTAL: $427.95" it is 427.95.
C9_TotalNeverFromSubtotal ==
  ret # None =>
    /\ ret[1].total # None => ~ HasSubtotal(arg[ret[1].line])
    /\ (/\ Len(arg) >= 2
        /\ arg[Len(arg) - 1] = <<"Subtotal:", "$378.85">>
        /\ arg[Len(arg)] = <<"TOTAL:", "$427.95">>) => ret[1].total = Some(42795)

-----------------------------------------------------------------------------
(* LLMInvoiceParser._validate_and_clean_data on its own *)

NoNameItem ==
  DictItem(JS("absent", ""), JN("num", 200), JS("absent", ""),
           JN("num", 210), JS("absent", ""), JN("absent", 0))

BlankNameItem ==
  DictItem(JS("str", " "), JN("num", 200), JS("str", "lb"),
           JN("num", 210), JS("str", "other"), JN("absent", 0))

NullNameItem ==
  DictItem(JS("null", ""), JN("absent", 0), JS("str", "lb"),
           JN("numstr", 500), JS("str", "other"), JN("absent", 0))

BadQuantityItem ==
  DictItem(JS("str", "Beef"), JN("badstr", 0), JS("str", "lb"),
           JN("num", 500), JS("str", "protein"), JN("absent", 0))

NegativePriceItem ==
  DictItem(JS("str", "Beef"), JN("num", 100), JS("str", "lb"),
           JN("num", -500), JS("str", "protein"), JN("absent", 0))

NoPriceItem ==
  DictItem(JS("str", "Beef"), JN("num", 100), JS("str", "lb"),
           JN("absent", 0), JS("str", "protein"), JN("null", 0))

SeafoodItem ==
  DictItem(JS("str", "Cod"), JN("num", 100), JS("str", "lb"),
           JN("num", 900), JS("str", "seafood"), JN("absent", 0))

ItemPool ==
  { GoodItem, ZeroPriceItem, ZeroQuantityItem, HugePriceItem, NonDictItem,
    NoNameItem, BlankNameItem, NullNameItem, BadQuantityItem,
    NegativePriceItem, NoPriceItem, SeafoodItem }

\* items in a list handed to _validate_and_clean_data
MaxItems == 2

ValidateInputs ==
  { Payload(Some("Green Farm"), t, None, ItemList(its), None).data :
      t \in {JN("num", 42795), JN("badstr", 0)},
      its \in {<<>>} \cup SeqsUpTo(ItemPool, MaxItems) }

InitValidate == InitParser /\ InitDb /\ InitCarbon /\ arg \in ValidateInputs /\ ret = None

\* validated_data = self._validate_and_clean_data(parsed_data)
ValidateStep ==
  /\ ret = None
  /\ ret' = Some(ValidateAndCleanData(arg))
  /\ UNCHANGED <<parser, arg, invoices, carbon, background_tasks>>

SpecValidate == InitValidate /\ [][ValidateStep]_vars

\* the items the claim has removed: no object, a name that is absent or
\* empty, a price that is absent or <= 0, a field float() cannot take
Coercible(j) == j.k \in {"absent", "num", "numstr"}

ClaimDrops(item) ==
  \/ ~ item.isdict
  \/ item.name.k = "absent"
  \/ item.name.k = "str" /\ Strip(item.name.s) = ""
  \/ ~ Coercible(item.quantity) \/ ~ Coercible(item.price)
  \/ ~ Coercible(item.confidence)
  \/ Float(item.price, 0).v <= 0

RECURSIVE ClaimKeeps(_)
ClaimKeeps(items) ==
  IF items = <<>> THEN <<>>
  ELSE IF ClaimDrops(Head(items)) THEN ClaimKeeps(Tail(items))
  ELSE <<CleanedItem(Head(items)).item>> \o ClaimKeeps(Tail(items))

\* a is a subsequence of b
RECURSIVE IsSubseq(_, _)
IsSubseq(a, b) ==
  IF a = <<>> THEN TRUE
  ELSE IF b = <<>> THEN FALSE
  ELSE IF Head(a) = Head(b) THEN IsSubseq(Tail(a), Tail(b))
  ELSE IsSubseq(a, Tail(b))

\* C8 as stated has validation never reject the whole extraction because
\* of an item and keep, in their order, the items that have a name, a
\* price > 0 and fields that can be coerced, with item_count their number.
\* This is the part of it that does not depend on how an absent name is
\* read: nothing is raised, the items the claim keeps are among the items
\* returned, in order, and item_count counts the items returned.
C8_ItemsDroppedIndividually ==
  ret # None =>
    /\ ~ ret[1].raised
    /\ IsSubseq(ClaimKeeps(arg.items.v), ret[1].value.items)
    /\ ret[1].value.item_count = Len(ret[1].value.items)

\* C7 as stated: every item of a returned dictionary has price > 0 and
\* quantity > 0.
C7_ItemsPositive ==
  \A c \in Callers :
    result[c] # None =>
      \A i \in 1..Len(result[c][1].items) :
        /\ result[c][1].items[i].price > 0
        /\ result[c][1].items[i].quantity > 0

-----------------------------------------------------------------------------
(* ImprovedInvoiceParser: vendor, date, table rows, parse_invoice.         *)
(* The texts of the model are shorter than BigLineLen characters, so the   *)
(* branch at improved_invoice_parser.py:203, which splits a single line of *)
(* more than 500 characters, is not taken.                                 *)

\* tokens made of the characters [A-Za-z\s&,.'\-] only (all of them words)
AlphaToks ==
  {"ORGANIC", "HARVEST", "DISTRIBUTORS", "FARM", "ACME", "Bistro", "June",
   "Kale", "Beef", "Qty", "Unit", "Item", "Description", "Total", "Tax",
   "due", "lb", "Local"}

\* tokens in which a word of DISTRIBUTORS|COMPANY|FARM|MARKET|LLC|Inc|
\* Co\.?|Corp|Ltd occurs (re.IGNORECASE); it is the whole token
VendorKeyToks == {"DISTRIBUTORS", "FARM"}

\* tokens that end with  (?:from|vendor|supplier)[:]  (re.IGNORECASE)
VendorLabelToks == {"Vendor:"}

\* the greatest element of a non-empty set of positions
Greatest(S) == CHOOSE k \in S : \A m \in S : m <= k

\* vendor_patterns[0] and [1] on a line (improved_invoice_parser.py:26-27):
\* from the start of the line, a letter, characters of the class, then, as
\* far to the right as the class reaches, a vendor word
VendorPattern1(line) ==
  LET hit == {k \in 2..Len(line) :
                /\ line[k] \in VendorKeyToks
                /\ \A m \in 1..(k - 1) : line[m] \in AlphaToks}
  IN IF hit = {} THEN None
     ELSE Some(JoinToks(SubSeq(line, 1, Greatest(hit))))

\* vendor_patterns[2] on a line (improved_invoice_parser.py:28)
VendorPattern3(line) ==
  LET hit == {k \in 1..(Len(line) - 1) : line[k] \in VendorLabelToks}
  IN IF hit = {} THEN None
     ELSE Some(JoinToks(SubSeq(line, Least(hit) + 1, Len(line))))

VendorOfLine(line) ==
  IF LineLen(line) < 5 THEN None
  ELSE IF VendorPattern1(line) # None THEN VendorPattern1(line)
  ELSE VendorPattern3(line)

\* ImprovedInvoiceParser._extract_vendor
ExtractVendor(lines) ==
  LET hit == {i \in 1..Min(5, Len(lines)) : VendorOfLine(lines[i]) # None}
  IN IF hit = {} THEN None ELSE VendorOfLine(lines[Least(hit)])

\* tokens that hold  [0-9]{1,2}[/-][0-9]{1,2}[/-][0-9]{2,4}  (the whole token)
NumericDateToks == {"6/28/2025"}

\* date_patterns on a line, in the order of the list; the third pattern
\* matches only where the second does (improved_invoice_parser.py:39-43)
DateOfLine(line) ==
  LET hit == {k \in 1..Len(line) : line[k] \in NumericDateToks}
  IN IF DatePattern1(line) # None THEN DatePattern1(line)
     ELSE IF hit # {} THEN Some(line[Least(hit)])
     ELSE None

\* datetime.strptime(...).strftime('%Y-%m-%d') with '%m/%d/%Y' when the
\* string holds '/', with '%B %d, %Y' otherwise; None where it raises
Strptime(date_str) ==
  CASE date_str = "6/28/2025" -> Some("2025-06-28")
    [] date_str = "June 28, 2025" -> Some("2025-06-28")
    [] OTHER -> None

\* ImprovedInvoiceParser._extract_date
ExtractDate(lines) ==
  LET hit == {i \in 1..Min(10, Len(lines)) : DateOfLine(lines[i]) # None}
  IN IF hit = {} THEN None
     ELSE LET date_str == DateOfLine(lines[Least(hit)])[1]
          IN IF Strptime(date_str) # None THEN Strptime(date_str)
             ELSE Some(date_str)

\* ImprovedInvoiceParser._clean_text followed by split('\n'): every run of
\* white space, line breaks included, becomes one blank; no token of the
\* vocabulary has a lower-case letter before an upper-case one
CleanedLines(ocr_text) == << Flatten(ocr_text) >>

\* tokens in which 'qty' or 'quantity', 'unit', 'item' or 'description'
\* occur when lowered (improved_invoice_parser.py:221)
HeaderQtyToks == {"Qty"}

HeaderUnitToks == {"Unit"}

HeaderItemToks == {"Item", "Description"}

\* tokens in which 'subtotal', 'tax', 'delivery' or 'total' occur when
\* lowered (improved_invoice_parser.py:255)
StopToks == {"Subtotal:", "Tax", "TOTAL:", "Total"}

\* tokens made of digits only
IntToks == {"10", "0", "28", "2025"}

\* tokens that are one of lb|box|case|bottle|gal|bb|each (re.IGNORECASE)
UnitToks == {"lb"}

\* tokens that are '$' followed by a digit:  \$\d+\.?\d*
DollarDigitToks == DollarToks \ {"$,"}

\* tokens that end with a digit
EndsDigitToks == IntToks \cup {"34.10", "6/28/2025"} \cup DollarDigitToks

\* tokens in which a word of the food list of _looks_like_table_row occurs
FoodToks == {"Kale", "Beef", "ORGANIC", "(Organic)"}

\* the digits a token starts with, and what follows them in the token
DigitPrefix(t) ==
  CASE t \in IntToks -> t
    [] t = "28," -> "28"
    [] t = "34.10" -> "34"
    [] t = "6/28/2025" -> "6"
    [] OTHER -> ""

AfterDigits(t) ==
  CASE t \in IntToks -> ""
    [] t = "28," -> ","
    [] t = "34.10" -> ".10"
    [] t = "6/28/2025" -> "/28/2025"
    [] OTHER -> t

\* ImprovedInvoiceParser._categorize_ingredient on the tokens of a name:
\* the first category of the dictionary one of whose words occurs
CategorizeIngredient(toks) ==
  IF \E k \in 1..Len(toks) : toks[k] = "Beef" THEN "protein"
  ELSE IF \E k \in 1..Len(toks) : toks[k] = "Kale" THEN "vegetables"
  ELSE "other"

\* ImprovedInvoiceParser._looks_like_table_row
LooksLikeTableRow(line) ==
  \/ /\ Len(line) >= 3 /\ line[1] \in IntToks /\ line[2] \in AlphaToks
     /\ \E k \in 3..Len(line) : line[k] \in DollarDigitToks
  \/ /\ \E k \in 1..Len(line) : line[k] \in FoodToks
     /\ \E k \in 1..Len(line) : line[k] \in DollarToks

\* ExtractedItem as _item_to_dict renders it; attributes is always {}
Item(name, quantity, unit, price, category, confidence) ==
  [name |-> name, quantity |-> quantity, unit |-> unit, price |-> price,
   category |-> category, confidence |-> confidence, attributes |-> {}]

\* the three patterns of _parse_table_row: quantity, unit, then a name up
\* to the first '$' that a digit follows
RowByPattern(line) ==
  LET hit == {k \in 3..Len(line) : line[k] \in DollarDigitToks}
  IN IF Len(line) < 3 \/ line[1] \notin IntToks \/ line[2] \notin UnitToks
        \/ hit = {}
     THEN None
     ELSE LET k == Least(hit)
              toks == SubSeq(line, 3, k - 1)
          IN Some(Item(IF toks = <<>> THEN "Unknown Item" ELSE JoinToks(toks),
                       ParseFloat(line[1])[1], line[2],
                       ParseFloat(DollarGroup(line[k]))[1],
                       CategorizeIngredient(toks), 95))

\* the fallback of _parse_table_row (improved_invoice_parser.py:456-493)
RowByFallback(line) ==
  LET price == {k \in 1..Len(line) : line[k] \in DollarDigitToks}
      units == {j \in 1..(Len(line) - 1) :
                  line[j] \in EndsDigitToks /\ line[j + 1] \in UnitToks}
  IN IF price = {} THEN None
     ELSE
       LET k == Least(price)
           quantity == IF DigitPrefix(line[1]) = "" THEN 100
                       ELSE ParseFloat(DigitPrefix(line[1]))[1]
           toks == IF units # {} THEN SubSeq(line, Least(units) + 2, k - 1)
                   ELSE SubSeq(line, 2, k - 1)
           first == IF units # {} \/ k = 1 THEN "" ELSE AfterDigits(line[1])
           name == IF first = "" THEN JoinToks(toks)
                   ELSE IF toks = <<>> THEN first
                   ELSE first \o " " \o JoinToks(toks)
           named == IF units # {} \/ k = 1 THEN toks
                    ELSE SubSeq(line, 1, k - 1)
       IN IF Len(name) > 2
          THEN Some(Item(name, quantity,
                         IF units # {} THEN "lb" ELSE "each",
                         ParseFloat(DollarGroup(line[k]))[1],
                         CategorizeIngredient(named), 70))
          ELSE None

\* ImprovedInvoiceParser._parse_table_row
ParseTableRow(line) ==
  IF RowByPattern(line) # None THEN RowByPattern(line)
  ELSE RowByFallback(line)

IsHeader(line) ==
  /\ \E k \in 1..Len(line) : line[k] \in HeaderQtyToks
  /\ \E k \in 1..Len(line) : line[k] \in HeaderUnitToks
  /\ \E k \in 1..Len(line) : line[k] \in HeaderItemToks

\* the index of the first row: the line after the first header line, or
\* else the first line that looks like a row (None when there is neither)
TableStart(lines) ==
  LET heads == {i \in 1..Len(lines) : IsHeader(lines[i])}
      rows == {i \in 1..Len(lines) :
                 LineLen(lines[i]) >= 10 /\ LooksLikeTableRow(lines[i])}
  IN IF heads # {} THEN Some(Least(heads) + 1)
     ELSE IF rows # {} THEN Some(Least(rows))
     ELSE None

\* a mutant of RowsFrom: a row of the totals section is passed over and the
\* scan goes on
RECURSIVE RowsFromPastTotals(_, _)
RowsFromPastTotals(lines, i) ==
  IF i > Len(lines) THEN <<>>
  ELSE IF \/ \E k \in 1..Len(lines[i]) : lines[i][k] \in StopToks
          \/ LineLen(lines[i]) < 10
          \/ ParseTableRow(lines[i]) = None
       THEN RowsFromPastTotals(lines, i + 1)
  ELSE <<ParseTableRow(lines[i])[1]>> \o RowsFromPastTotals(lines, i + 1)

\* the loop over the rows (improved_invoice_parser.py:250-276)
RECURSIVE RowsFrom(_, _)
RowsFrom(lines, i) ==
  IF i > Len(lines) THEN <<>>
  ELSE IF \E k \in 1..Len(lines[i]) : lines[i][k] \in StopToks THEN <<>>
  ELSE IF LineLen(lines[i]) < 10 \/ ParseTableRow(lines[i]) = None
       THEN RowsFrom(lines, i + 1)
  ELSE <<ParseTableRow(lines[i])[1]>> \o RowsFrom(lines, i + 1)

\* ImprovedInvoiceParser._extract_table_items
ExtractTableItems(lines) ==
  IF TableStart(lines) = None THEN <<>>
  ELSE RowsFrom(lines, TableStart(lines)[1])

\* ImprovedInvoiceParser._empty_result
ImprovedEmptyResult ==
  [vendor_name |-> None, total_amount |-> None, invoice_date |-> None,
   items |-> <<>>, categorized_items |-> Categorize(<<>>),
   parsing_confidence |-> 0, item_count |-> 0]

\* ImprovedInvoiceParser.parse_invoice
ImprovedParseInvoice(ocr_text) ==
  IF TextLen(ocr_text) = 0 THEN ImprovedEmptyResult
  ELSE
    LET lines == CleanedLines(ocr_text)
        vendor_name == ExtractVendor(lines)
        items == ExtractTableItems(lines)
    IN [vendor_name |-> vendor_name,
        total_amount |-> ExtractTotal(lines).total,
        invoice_date |-> ExtractDate(lines), items |-> items,
        categorized_items |-> Categorize(items),
        parsing_confidence |->
          IF vendor_name # None /\ items # <<>> THEN 90 ELSE 50,
        item_count |-> Len(items)]

\* C2 as stated: when extraction answered null, the result has the vendor,
\* total, date and item list that ImprovedInvoiceParser.parse_invoice
\* returns for the same text, and is tagged 'regex-fallback'.
C2_FallbackEqualsHeuristicParser ==
  \A c \in Callers :
    (Done(c) /\ gen[c] # <<>>
       /\ ~ ExtractionOf(c).raised /\ ExtractionOf(c).value = None) =>
      /\ result[c][1].parsing_method = Some("regex-fallback")
      /\ result[c][1].vendor_name = ImprovedParseInvoice(text[c]).vendor_name
      /\ result[c][1].total_amount = ImprovedParseInvoice(text[c]).total_amount
      /\ result[c][1].invoice_date = ImprovedParseInvoice(text[c]).invoice_date
      /\ result[c][1].items = ImprovedParseInvoice(text[c]).items

-----------------------------------------------------------------------------
(* Claims on the requests of parse_invoice *)

\* C11: a call sends at most one generation request and receives at most
\* one answer to it, and once the answer is in the call is finished: a
\* request that failed or whose answer cannot be used is not sent again.
C11_GenerationAtMostOnce ==
  \A c \in Callers :
    /\ Len(requests[c]) <= 1
    /\ Len(gen[c]) <= 1
    /\ gen[c] # <<>> => Done(c)

\* C11 happens: one call ended after a non-200 answer, one after output
\* that holds no JSON, each with one request sent and the heuristic
\* dictionary returned
C11_Witness ==
  \E c, d \in Callers :
    /\ Done(c) /\ Len(requests[c]) = 1 /\ gen[c] # <<>>
    /\ gen[c][1].k = "non200"
    /\ Done(d) /\ Len(requests[d]) = 1 /\ gen[d] # <<>>
    /\ gen[d][1].k = "ok" /\ gen[d][1].out.shape = "garbage"
    /\ result[c][1].parsing_method = Some("regex-fallback")
    /\ result[d][1].parsing_method = Some("regex-fallback")

\* the model list of a probe answer holds the configured model, under any tag
ListsConfigured(r) ==
  \E i \in 1..Len(r.names) : BaseName(r.names[i]) = ConfiguredModel

\* C13 as stated: after a probe that answered a non-empty model list
\* without the configured model, the call goes on to the generation
\* request, and the request names the first model of the list (its tag
\* left aside).
C13_SubstitutesFirstModel ==
  \A c \in Callers :
    (/\ probe[c] # <<>> /\ probe[c][1].k = "models"
     /\ probe[c][1].names # <<>> /\ ~ ListsConfigured(probe[c][1])) =>
      /\ pc[c] = "generate" \/ (Done(c) /\ gen[c] # <<>>)
      /\ requests[c] # <<>> =>
           requests[c][1] = BaseName(probe[c][1].names[1])

\* the answers of the generation request C14 is about: the transport
\* failed, the status is not 200, the body is no JSON, the output is empty
ClientFailure(g) ==
  g.k \in {"raise", "non200", "nojson"} \/ (g.k = "ok" /\ g.out.shape = "empty")

\* C14: on a transport failure, a status that is not 200, a body that is
\* no JSON or an empty output, _llm_parse_with_prompt returns None and
\* raises nothing: parse_invoice takes its None branch ('regex-fallback')
\* and not its exception branch.
C14_ClientReturnsNull ==
  \A c \in Callers :
    (Done(c) /\ gen[c] # <<>> /\ ClientFailure(gen[c][1])) =>
      /\ ExtractionOf(c) = [raised |-> FALSE, value |-> None]
      /\ outcome[c] = "returned"
      /\ result[c][1].parsing_method = Some("regex-fallback")
      /\ result[c][1].llm_error = None

\* C14 happens: one call ended after a transport failure, one after a body
\* that is no JSON
C14_Witness ==
  \E c, d \in Callers :
    /\ Done(c) /\ gen[c] # <<>> /\ gen[c][1].k = "raise"
    /\ Done(d) /\ gen[d] # <<>> /\ gen[d][1].k = "nojson"
    /\ result[c][1].parsing_method = Some("regex-fallback")
    /\ result[d][1].parsing_method = Some("regex-fallback")

-----------------------------------------------------------------------------
(* The timeouts of the two requests.  A request that is out is answered by  *)
(* the service or not at all; requests.get and requests.post raise once     *)
(* their timeout has passed without an answer, which is the "raise" answer  *)
(* of ProbeStep and GenerateStep.                                           *)

\* a request without timeout waits for ever
NoTimeout == None

\* requests.get(..., timeout=5), in seconds (llm_invoice_parser.py:175)
ProbeTimeout == Some(5)

\* requests.post(..., timeout=600), in seconds (llm_invoice_parser.py:93)
GenerateTimeout == Some(600)

\* the probe of caller c is out and its timeout passes
ProbeTimesOut(c) ==
  /\ ProbeTimeout # None
  /\ ProbeStep(c, ProbeResponse("raise", <<>>))

\* the generation request of caller c is out and its timeout passes
GenerateTimesOut(c) ==
  /\ GenerateTimeout # None
  /\ GenerateStep(c, GenResponse("raise", "empty", NoDoc))

\* the service is free never to answer; time passes, so a timeout that is
\* set is not put off for ever
SpecLive ==
  /\ Spec
  /\ \A c \in Callers : WF_vars(ProbeTimesOut(c)) /\ WF_vars(GenerateTimesOut(c))

\* C12: a call whose probe or generation request is out returns in the
\* end, also when the service never answers; and a call that ended on a
\* request that raised returned the vendor, total and date of the heuristic
\* stage.
C12_CallsReturn ==
  /\ \A c \in Callers : (pc[c] \in {"probe", "generate"}) ~> Done(c)
  /\ [](\A c \in Callers :
          (/\ Done(c)
           /\ \/ probe[c] # <<>> /\ gen[c] = <<>> /\ probe[c][1].k = "raise"
              \/ gen[c] # <<>> /\ gen[c][1].k = "raise") =>
            /\ outcome[c] = "returned"
            /\ result[c][1].vendor_name = HeuristicOf(c).vendor_name
            /\ result[c][1].total_amount = HeuristicOf(c).total_amount
            /\ result[c][1].invoice_date = HeuristicOf(c).invoice_date
            /\ result[c][1].items = HeuristicOf(c).items)

\* C12 happens: a call whose generation request raised has returned the
\* heuristic dictionary of a text with a total
C12_Witness ==
  \E c \in Callers :
    /\ Done(c) /\ gen[c] # <<>> /\ gen[c][1].k = "raise"
    /\ outcome[c] = "returned"
    /\ result[c][1].total_amount # None
    /\ result[c][1].total_amount = HeuristicOf(c).total_amount

-----------------------------------------------------------------------------
(* InvoiceProcessingService on the parser's results *)

\* what the service answers when it reports a failure
Failure(error) ==
  [success |-> FALSE, error |-> Some(error), processing_method |-> None,
   vendor_name |-> None, total_amount |-> None, invoice_date |-> None,
   items |-> <<>>, item_count |-> 0, confidence |-> 0]

\* InvoiceProcessingService.process_invoice_from_text once parse_invoice
\* has ended: raised tells that it raised, parsed_result is what it
\* returned.  The test is on the key 'success' of the dictionary, and
\* 'confidence' is a key no parser result holds.
ProcessInvoiceFromText(raised, parsed_result) ==
  IF raised THEN Failure("Processing failed")
  ELSE IF parsed_result.success # Some(TRUE) THEN Failure("Invoice parsing failed")
  ELSE [success |-> TRUE, error |-> None,
        processing_method |-> Some("LLM only"),
        vendor_name |-> parsed_result.vendor_name,
        total_amount |-> parsed_result.total_amount,
        invoice_date |-> parsed_result.invoice_date,
        items |-> parsed_result.items,
        item_count |-> Len(parsed_result.items),
        confidence |-> 0]

\* what process_invoice_from_text answers for caller c's finished call
FromTextOf(c) ==
  IF outcome[c] = "raised" THEN ProcessInvoiceFromText(TRUE, LlmEmptyResult)
  ELSE ProcessInvoiceFromText(FALSE, result[c][1])

\* C19 as stated: whenever parse_invoice returned a dictionary, by whichever
\* path, process_invoice_from_text answers success = True with the vendor,
\* total, date and items of that dictionary.
C19_FromTextSucceeds ==
  \A c \in Callers :
    (Done(c) /\ result[c] # None) =>
      /\ FromTextOf(c).success
      /\ FromTextOf(c).vendor_name = result[c][1].vendor_name
      /\ FromTextOf(c).total_amount = result[c][1].total_amount
      /\ FromTextOf(c).invoice_date = result[c][1].invoice_date
      /\ FromTextOf(c).items = result[c][1].items

\* the methods class OCRService defines (ocr_service.py:6-262)
OCRServiceMethods ==
  {"__init__", "extract_text", "_extract_text_from_image",
   "_extract_text_from_pdf", "_paddle_result_to_structured_text",
   "_process_structured_data"}

\* the methods class LLMInvoiceParser defines (llm_invoice_parser.py:6-409)
LLMInvoiceParserMethods ==
  {"__init__", "parse_invoice", "_llm_parse_with_prompt",
   "_create_parsing_prompt", "_check_ollama_available", "_llm_parse",
   "_extract_json_from_response", "_validate_and_clean_data",
   "_fallback_parse", "_empty_result"}

\* the dictionary of the handler at invoice_processing_service.py:219-225;
\* it has no key 'ready_for_processing'
StatusError ==
  [ocr_available |-> FALSE, llm_available |-> FALSE,
   combined_available |-> FALSE, ready_for_processing |-> None]

\* InvoiceProcessingService.get_service_status; llm_status is what
\* self.llm_parser.get_service_status() answers where that method exists.
\* Calling a method the class does not define raises AttributeError.
GetServiceStatus(llm_status) ==
  IF "get_service_info" \notin OCRServiceMethods THEN StatusError
  ELSE IF "get_service_status" \notin LLMInvoiceParserMethods THEN StatusError
  ELSE [ocr_available |-> TRUE, llm_available |-> llm_status.available,
        combined_available |-> llm_status.available,
        ready_for_processing |-> Some(llm_status.available)]

\* the service is reachable and has a model the parser can use
Usable(r) == r.k = "models" /\ r.names # <<>>

\* C20 as stated: with the recogniser initialised, and the service
\* answering a probe as it just did, get_service_status reports
\* ocr_service.available, and reports llm_service.available and
\* combined_service.ready_for_processing exactly when the service is
\* reachable with a usable model.
C20_StatusReportsAvailability ==
  \A c \in Callers :
    probe[c] # <<>> =>
      LET usable == Usable(probe[c][1])
          status == GetServiceStatus([available |-> usable])
      IN /\ status.ocr_available
         /\ status.llm_available = usable
         /\ status.ready_for_processing = Some(usable)

-----------------------------------------------------------------------------
(* The pipeline: upload_invoice, process_invoice_background and             *)
(* InvoiceProcessingService.process_invoice.  The background task is a      *)
(* coroutine that never awaits, so it runs from start to end on the event   *)
(* loop and parse_invoice runs in it without another call in between.       *)

\* LLMInvoiceParser.parse_invoice from start to end with self.model = m, the
\* probe answered by r and the generation request by g:
\* [raised, value, model], model the value of self.model afterwards
ParseInvoice(m, ocr_text, r, g) ==
  IF TooShort(ocr_text)
  THEN [raised |-> FALSE, value |-> LlmEmptyResult, model |-> m]
  ELSE
    LET f == FallbackParse(ocr_text)
        a == CheckOllamaAvailable(m, r)
    IN IF f.raised
       THEN [raised |-> TRUE, value |-> LlmEmptyResult, model |-> m]
       ELSE [raised |-> FALSE,
             value |-> IF a.raised THEN RegexExcept(f.value)
                       ELSE IF ~ a.available THEN RegexOnly(f.value)
                       ELSE AfterLlmParse(LlmParseWithPrompt(g), f.value),
             model |-> a.model]

\* InvoiceProcessingService._process_items_for_carbon_footprint
ProcessItemsForCarbonFootprint(items) ==
  [k \in 1..Len(items) |->
     [name |-> items[k].name, quantity |-> items[k].quantity,
      unit |-> items[k].unit, price |-> items[k].price,
      category |-> items[k].category, carbon_footprint |-> 0]]

\* InvoiceProcessingService.process_invoice once recognition has given
\* extracted_text: [success, error, parsed_data, processed_items, model].
\* parse_invoice returns no empty dictionary, so the test at
\* invoice_processing_service.py:60 fails.
ProcessInvoice(m, extracted_text, r, g) ==
  IF TextLen(extracted_text) = 0 \/ StripLen(extracted_text) = 0
  THEN [success |-> FALSE, error |-> Some("No text extracted from image"),
        parsed_data |-> None, processed_items |-> <<>>, model |-> m]
  ELSE
    LET p == ParseInvoice(m, extracted_text, r, g)
    IN IF p.raised
       THEN [success |-> FALSE, error |-> Some("exception"),
             parsed_data |-> None, processed_items |-> <<>>, model |-> p.model]
       ELSE [success |-> TRUE, error |-> None, parsed_data |-> Some(p.value),
             processed_items |-> ProcessItemsForCarbonFootprint(p.value.items),
             model |-> p.model]

\* the date column of the row: datetime.fromisoformat, then the formats of
\* invoice.py:171-176; None where none of them takes the string
ParseInvoiceDate(date) ==
  IF date = None THEN None
  ELSE CASE date[1] = "2025-06-28" -> Some("2025-06-28")
         [] date[1] = "June 28, 2025" -> Some("2025-06-28")
         [] date[1] = "6/28/2025" -> Some("2025-06-28")
         [] OTHER -> None

\* what recognition gives for an uploaded file
OcrTexts == {EmptyText, ItemLineText}

\* what the probe and the generation request give in the pipeline: the
\* service down, or up with an extraction of one item or of none
PipelineProbes ==
  {ProbeResponse("raise", <<>>), ProbeResponse("models", <<"llama2:latest">>)}

PipelineGenerations ==
  { GenResponse("raise", "empty", NoDoc),
    GenResponse("ok", "bare",
                Payload(Some("Green Farm"), JN("num", 42795), Some("2025-06-28"),
                        ItemList(<<GoodItem, ZeroPriceItem>>), Some(95))),
    GenResponse("ok", "bare",
                Payload(None, JN("null", 0), None,
                        ItemList(<<ZeroQuantityItem>>), None)) }

\* the tasks BackgroundTasks holds at most, each [args], the positional
\* arguments handed to process_invoice_background
MaxTasks == 2

\* invoice.file_path
FilePath(i) == "file_path"

\* upload_invoice (invoice.py:45-104): the row is added as "pending" and the
\* background task is queued with the id and the path
UploadInvoice(i) ==
  /\ invoices[i].processing_status = "absent"
  /\ Len(background_tasks) < MaxTasks
  /\ invoices' = [invoices EXCEPT ![i] =
                    [NoInvoice EXCEPT !.processing_status = "pending"]]
  /\ background_tasks' = Append(background_tasks, [args |-> <<i, FilePath(i)>>])
  /\ UNCHANGED <<parser, arg, ret, carbon>>

\* the parameters of process_invoice_background (invoice.py:106):
\* invoice_id, file_path
BackgroundParameters == 2

\* process_invoice_background (invoice.py:106-202), called with the
\* arguments of the first task, for row i, with what recognition, the probe
\* and the generation request give
ProcessInvoiceBackground(i, t, r, g) ==
  /\ background_tasks # <<>>
  /\ Len(Head(background_tasks).args) = BackgroundParameters
  /\ Head(background_tasks).args[1] = i
  /\ background_tasks' = Tail(background_tasks)
  /\ \E res \in {ProcessInvoice(model, t, r, g)} :
        /\ model' = res.model
        /\ invoices' = [invoices EXCEPT ![i] =
             IF ~ res.success
             THEN [@ EXCEPT !.processing_status = "failed",
                            !.error_message = res.error,
                            !.extracted_text = Some(t)]
             ELSE [@ EXCEPT !.processing_status = "completed",
                            !.ocr_text = Some(t),
                            !.parsed_data =
                               Some([parsing_method |-> res.parsed_data[1].parsing_method,
                                     items |-> res.parsed_data[1].items]),
                            !.vendor_name = res.parsed_data[1].vendor_name,
                            !.total_amount = res.parsed_data[1].total_amount,
                            !.invoice_date =
                               ParseInvoiceDate(res.parsed_data[1].invoice_date),
                            !.extracted_text = Some(t)]]
  /\ UNCHANGED <<ncalls, pc, text, regex_result, probe, gen, requests,
                 outcome, result, arg, ret, carbon>>

\* the first task called with more arguments than process_invoice_background
\* has parameters: the call raises TypeError before the body of the function
\* is entered, and no row is touched
ProcessInvoiceBackgroundTypeError ==
  /\ background_tasks # <<>>
  /\ Len(Head(background_tasks).args) # BackgroundParameters
  /\ background_tasks' = Tail(background_tasks)
  /\ UNCHANGED <<parser, arg, ret, invoices, carbon>>

\* reprocess_invoice (invoice.py:314-339): the row goes back to "pending"
\* without its parsed_data, and the background task is queued with the id,
\* the path and the session
ReprocessInvoice(i) ==
  /\ invoices[i].processing_status # "absent"
  /\ Len(background_tasks) < MaxTasks
  /\ invoices' = [invoices EXCEPT ![i] =
                    [@ EXCEPT !.processing_status = "pending",
                              !.parsed_data = None]]
  /\ background_tasks' =
       Append(background_tasks, [args |-> <<i, FilePath(i), "db">>])
  /\ UNCHANGED <<parser, arg, ret, carbon>>

\* C15 as stated: a row whose recognition gave the empty text ends as
\* "completed", with no error message and an empty extraction: no items,
\* no vendor, no total, no date.
C15_RecognitionGapIsNoError ==
  \A i \in InvoiceIds :
    invoices[i].extracted_text = Some(EmptyText) =>
      /\ invoices[i].processing_status = "completed"
      /\ invoices[i].error_message = None
      /\ invoices[i].parsed_data # None
      /\ invoices[i].parsed_data[1].items = <<>>
      /\ invoices[i].vendor_name = None
      /\ invoices[i].total_amount = None
      /\ invoices[i].invoice_date = None

-----------------------------------------------------------------------------
(* OCRService._process_structured_data: rows from positioned fragments.    *)
(* A fragment is [bbox, info, text, confidence]: bbox the points <<x, y>>  *)
(* of its box, info the form of its text information ("list", "str",       *)
(* "other"), confidence in hundredths.  The boxes of the model have whole  *)
(* averages, so sum / len is a division without remainder.                 *)

RECURSIVE SumSeq(_)
SumSeq(q) == IF q = <<>> THEN 0 ELSE Head(q) + SumSeq(Tail(q))

\* round(n / 10) for n >= 0: Python rounds a half to the even neighbour
Round10(n) ==
  LET q == n \div 10
      r == n % 10
  IN IF r < 5 THEN q
     ELSE IF r > 5 THEN q + 1
     ELSE IF q % 2 = 0 THEN q ELSE q + 1

\* row_y (ocr_service.py:209-210)
RowY(bbox) == SumSeq([k \in 1..Len(bbox) |-> bbox[k][2]]) \div Len(bbox)

\* col_x (ocr_service.py:219-220)
ColX(bbox) == SumSeq([k \in 1..Len(bbox) |-> bbox[k][1]]) \div Len(bbox)

\* row_key (ocr_service.py:213)
RowKey(bbox) == Round10(RowY(bbox)) * 10

\* the confidence below which a fragment is skipped (ocr_service.py:205)
MinConfidence == 50

\* the fragment is skipped: text information of an unexpected form, a low
\* confidence, or an exception (the average of no points) that is caught
Skipped(frag) ==
  \/ frag.info = "other"
  \/ frag.info = "list" /\ frag.confidence < MinConfidence
  \/ frag.bbox = <<>>

\* the loop at ocr_service.py:187-230: rows is the dictionary as a sequence
\* of [key, cols] in the order the keys were inserted
RECURSIVE GroupRows(_, _)
GroupRows(data, rows) ==
  IF data = <<>> THEN rows
  ELSE
    LET frag == Head(data)
        key == RowKey(frag.bbox)
        col == [text |-> frag.text, x |-> ColX(frag.bbox), y |-> RowY(frag.bbox)]
        at == {k \in 1..Len(rows) : rows[k].key = key}
    IN IF Skipped(frag) THEN GroupRows(Tail(data), rows)
       ELSE IF at = {}
       THEN GroupRows(Tail(data), Append(rows, [key |-> key, cols |-> <<col>>]))
       ELSE GroupRows(Tail(data),
                      [rows EXCEPT ![Least(at)].cols = Append(@, col)])

\* sorted(q, key=...): a stable sort of q, smallest key first; keys[k] is
\* the key of q[k], and the sort is of the indices of q
RECURSIVE InsertByKey(_, _, _)
InsertByKey(i, idxs, keys) ==
  IF idxs = <<>> THEN <<i>>
  ELSE IF keys[i] < keys[Head(idxs)] THEN <<i>> \o idxs
  ELSE <<Head(idxs)>> \o InsertByKey(i, Tail(idxs), keys)

RECURSIVE SortedIndices(_, _)
SortedIndices(n, keys) ==
  IF n = 0 THEN <<>> ELSE InsertByKey(n, SortedIndices(n - 1, keys), keys)

SortedByKey(q, keys) ==
  LET idxs == SortedIndices(Len(q), keys) IN [k \in 1..Len(q) |-> q[idxs[k]]]

\* a mutant of SortedRows: the rows are left in the order of insertion
UnsortedRows(rows) == rows

\* sorted(rows.keys()) (ocr_service.py:235)
SortedRows(rows) == SortedByKey(rows, [k \in 1..Len(rows) |-> rows[k].key])

\* the spacing before a column (ocr_service.py:245-252)
Spacing(last_x, x) ==
  IF last_x <= 0 THEN ""
  ELSE IF x - last_x > 100 THEN "    "
  ELSE IF x - last_x > 50 THEN "  "
  ELSE " "

\* the loop at ocr_service.py:243-255 over the sorted columns: the pieces
\* row_text is made of
RECURSIVE RowPieces(_, _)
RowPieces(columns, last_x) ==
  IF columns = <<>> THEN <<>>
  ELSE LET col == Head(columns)
       IN <<Spacing(last_x, col.x), col.text>>
          \o RowPieces(Tail(columns), col.x + Len(col.text) * 10)

\* a piece that is white space only; the texts of the model have no white
\* space at their ends unless they are blank
Blank(piece) == piece \in {"", " ", "  ", "    "}

RECURSIVE Concat(_)
Concat(pieces) ==
  IF pieces = <<>> THEN "" ELSE Head(pieces) \o Concat(Tail(pieces))

\* row_text.strip()
StripPieces(pieces) ==
  LET full == {k \in 1..Len(pieces) : ~ Blank(pieces[k])}
  IN IF full = {} THEN ""
     ELSE Concat(SubSeq(pieces, Least(full), Greatest(full)))

\* the text of a row (ocr_service.py:237-257)
RowText(row) ==
  LET xs == [k \in 1..Len(row.cols) |-> row.cols[k].x]
  IN StripPieces(RowPieces(SortedByKey(row.cols, xs), 0))

\* OCRService._process_structured_data: the lines of final_text in order,
\* each with the key of its row and the vertical positions of its fragments
ProcessStructuredData(structured_data) ==
  LET rows == SortedRows(GroupRows(structured_data, <<>>))
      lines == [k \in 1..Len(rows) |->
                  [key |-> rows[k].key, text |-> RowText(rows[k]),
                   ys |-> {rows[k].cols[j].y : j \in 1..Len(rows[k].cols)}]]
      Full(line) == line.text # ""
  IN SelectSeq(lines, Full)

\* the corners of a box, as recognition gives them
Box(x0, y0, x1, y1) == << <<x0, y0>>, <<x1, y0>>, <<x1, y1>>, <<x0, y1>> >>

Fragment(bbox, info, t, confidence) ==
  [bbox |-> bbox, info |-> info, text |-> t, confidence |-> confidence]

\* fragments handed to _process_structured_data: row_y 4, 14, 15, 25 and 35
\* (14 rounds to the key 10, 15 and 25 to 20), a blank text, a low confidence, a
\* plain string for the text information, and a box without points
Fragments ==
  { Fragment(Box(0, 0, 60, 8), "list", "TOTAL:", 99),
    Fragment(Box(0, 10, 30, 20), "list", "Qty", 95),
    Fragment(Box(40, 9, 70, 19), "list", "lb", 95),
    Fragment(Box(80, 20, 120, 30), "list", "Kale", 90),
    Fragment(Box(280, 30, 320, 40), "str", "$2.10", 100),
    Fragment(Box(0, 50, 10, 60), "list", " ", 80),
    Fragment(Box(0, 60, 40, 70), "list", "smudge", 40),
    Fragment(<<>>, "list", "Beef", 90) }

\* fragments in a list handed to _process_structured_data
MaxFragments == 3

InitLayout ==
  InitParser /\ InitDb /\ InitCarbon /\ arg \in SeqsUpTo(Fragments, MaxFragments) /\ ret = None

\* structured_text = self._process_structured_data(structured_data)
ProcessStructuredDataStep ==
  /\ ret = None
  /\ ret' = Some(ProcessStructuredData(arg))
  /\ UNCHANGED <<parser, arg, invoices, carbon, background_tasks>>

SpecLayout == InitLayout /\ [][ProcessStructuredDataStep]_vars

\* C16: the rows the reconstructor emits are at most as many as the
\* fragments it was given, and they come in non-decreasing vertical order:
\* no fragment of an earlier row lies lower on the page than a fragment of
\* a later row.
C16_RowsBoundedAndOrdered ==
  ret # None =>
    /\ Len(ret[1]) <= Len(arg)
    /\ \A i, j \in 1..Len(ret[1]) :
         i < j => \A a \in ret[1][i].ys : \A b \in ret[1][j].ys : a <= b

\* three fragments given bottom first end as two rows, top first, the two
\* fragments of one row side by side
C16_Witness ==
  /\ ret # None
  /\ Len(arg) = 3
  /\ arg[1].text = "$2.10" /\ arg[2].text = "Kale" /\ arg[3].text = "Qty"
  /\ Len(ret[1]) = 2
  /\ ret[1][1].text = "Qty  Kale"
  /\ ret[1][2].text = "$2.10"

-----------------------------------------------------------------------------
(* CarbonService: matching an item name to a carbon intensity and a        *)
(* category, the emissions of an item, the sustainability score.           *)
(* Intensities, quantities, prices and emissions are in hundredths.        *)

\* <<a, b>>: a is a substring of b, for the lowered names of the model, the
\* keys of the table and the keywords of the service
Within ==
  { <<"beef", "beef">>,
    <<"beef", "beef ">>,
    <<"beef", "ground beef">>,
    <<"green", "green beans">>,
    <<"ground beef", "ground beef">>,
    <<"imported", "imported salmon">>,
    <<"local", "local tomato">>,
    <<"local", "organic local spinach">>,
    <<"local spinach", "organic local spinach">>,
    <<"local tomato", "local tomato">>,
    <<"oil", "olive oil">>,
    <<"oil", "vegetable oil">>,
    <<"organic", "organic local spinach">>,
    <<"salmon", "imported salmon">>,
    <<"spinach", "organic local spinach">>,
    <<"tomato", "local tomato">> }

\* needle in hay; the empty string is in every string
Contains(hay, needle) == needle = "" \/ <<needle, hay>> \in Within

\* any(w in item_name for w in words)
AnyIn(words, item_name) == \E w \in words : Contains(item_name, w)

\* modifier, in tenths (carbon_service.py:143-150)
Modifier(item_name) ==
  IF Contains(item_name, "local") THEN 3
  ELSE IF Contains(item_name, "organic") THEN 8
  ELSE IF Contains(item_name, "imported") THEN 15
  ELSE 10

\* the entries of the table that match in part, in the order of the table
PartialMatches(table, item_name) ==
  {k \in 1..Len(table) :
     Contains(item_name, table[k][1]) \/ Contains(table[k][1], item_name)}

\* the value stored under a key of the table
ValueOf(table, key) ==
  table[CHOOSE k \in 1..Len(table) : table[k][1] = key][2]

\* CarbonService._find_carbon_intensity
FindCarbonIntensity(table, name) ==
  LET item_name == Strip(Lower(name))
      partial == PartialMatches(table, item_name)
  IN IF \E k \in 1..Len(table) : table[k][1] = item_name
     THEN ValueOf(table, item_name)
     ELSE IF partial # {}
     THEN (table[Least(partial)][2] * Modifier(item_name)) \div 10
     ELSE IF AnyIn({"beef", "meat", "steak"}, item_name)
     THEN ValueOf(table, "beef")
     ELSE IF AnyIn({"chicken", "poultry"}, item_name)
     THEN ValueOf(table, "chicken")
     ELSE IF AnyIn({"milk", "cream", "dairy"}, item_name)
     THEN ValueOf(table, "milk")
     ELSE IF AnyIn({"vegetable", "lettuce", "green"}, item_name) THEN 100
     ELSE ValueOf(table, "default")

\* a mutant of IntensitiesAfter: the modified value of a partial match is
\* written back under the key that matched
IntensitiesWrittenBack(table, name) ==
  LET item_name == Strip(Lower(name))
      partial == PartialMatches(table, item_name)
  IN IF (\E k \in 1..Len(table) : table[k][1] = item_name) \/ partial = {}
     THEN table
     ELSE [table EXCEPT ![Least(partial)][2] = FindCarbonIntensity(table, name)]

\* self.carbon_intensities after _find_carbon_intensity: the method reads the
\* table and writes nothing
IntensitiesAfter(table, name) == table

\* CarbonService._get_impact_level
GetImpactLevel(carbon_intensity) ==
  IF carbon_intensity > 2000 THEN "high"
  ELSE IF carbon_intensity > 500 THEN "medium"
  ELSE "low"

\* CarbonService._categorize_item
CategorizeItem(name) ==
  LET item_name == Lower(name)
  IN IF AnyIn({"beef", "pork", "chicken", "fish", "meat"}, item_name)
     THEN "protein"
     ELSE IF AnyIn({"milk", "cheese", "butter", "cream"}, item_name)
     THEN "dairy"
     ELSE IF AnyIn({"tomato", "lettuce", "onion", "carrot", "vegetable"}, item_name)
     THEN "vegetables"
     ELSE IF AnyIn({"rice", "wheat", "bread", "pasta"}, item_name)
     THEN "grains"
     ELSE IF AnyIn({"apple", "orange", "banana", "fruit"}, item_name)
     THEN "fruits"
     ELSE "other"

\* CarbonService._extract_quantity on str(quantity) of a number: the first
\* run of digits with its fraction, so a sign is lost
ExtractQuantity(quantity) == IF quantity < 0 THEN 0 - quantity ELSE quantity

\* round(num / den) for num >= 0, den > 0, a half to the even neighbour
RoundDiv(num, den) ==
  LET q == num \div den
      r == num % den
  IN IF 2 * r < den THEN q
     ELSE IF 2 * r > den THEN q + 1
     ELSE IF q % 2 = 0 THEN q ELSE q + 1

\* CarbonService._calculate_item_emissions, reading the table
CalculateItemEmissions(table, item) ==
  LET name == Lower(item.name)
      quantity == ExtractQuantity(item.quantity)
      carbon_intensity == FindCarbonIntensity(table, name)
      total_co2 == quantity * carbon_intensity
  IN [name |-> item.name,
      quantity |-> quantity,
      carbon_intensity |-> carbon_intensity,
      total_co2 |-> RoundDiv(total_co2, 100),
      impact_level |-> GetImpactLevel(carbon_intensity),
      category |-> CategorizeItem(name),
      price |-> item.price,
      co2_per_dollar |->
        IF item.price > 0 THEN RoundDiv(total_co2, item.price) ELSE 0,
      is_local |-> Contains(name, "local"),
      is_organic |-> Contains(name, "organic")]

\* the score of one item (carbon_service.py:198-212)
ItemScore(item) ==
  LET base == IF item.impact_level = "low" THEN 80
              ELSE IF item.impact_level = "medium" THEN 50
              ELSE 20
      score == base + (IF item.is_local THEN 15 ELSE 0)
                    + (IF item.is_organic THEN 10 ELSE 0)
  IN IF score < 100 THEN score ELSE 100

\* a mutant of CalculateSustainabilityScore: the bonus is added after the cap
\* of an item, and the report is not capped
ScoreUncapped(item_emissions) ==
  IF item_emissions = <<>> THEN 50
  ELSE SumSeq([k \in 1..Len(item_emissions) |->
                 ItemScore([item_emissions[k] EXCEPT !.is_local = FALSE,
                                                     !.is_organic = FALSE])
                 + (IF item_emissions[k].is_local THEN 15 ELSE 0)
                 + (IF item_emissions[k].is_organic THEN 10 ELSE 0)])
       \div Len(item_emissions)

\* CarbonService._calculate_sustainability_score: int() cuts the fraction
\* of the mean
CalculateSustainabilityScore(item_emissions) ==
  IF item_emissions = <<>> THEN 50
  ELSE LET total_score ==
             SumSeq([k \in 1..Len(item_emissions) |-> ItemScore(item_emissions[k])])
           mean == total_score \div Len(item_emissions)
       IN IF mean < 100 THEN mean ELSE 100

\* the loop of calculate_footprint (carbon_service.py:62-71): the service
\* after the items, and their emissions in order
RECURSIVE EstimateAll(_, _, _)
EstimateAll(c, items, done) ==
  IF items = <<>> THEN [carbon |-> c, item_emissions |-> done]
  ELSE
    LET item == Head(items)
        e == CalculateItemEmissions(c.carbon_intensities, item)
        answer == [carbon_intensity |-> e.carbon_intensity, category |-> e.category]
    IN EstimateAll(
         [carbon_intensities |->
            IntensitiesAfter(c.carbon_intensities, Lower(item.name)),
          calls |-> [c.calls EXCEPT ![item.name] =
                       [times |-> IF @.times = "never" THEN "once" ELSE "more",
                        answers |-> @.answers \cup {answer}]]],
         Tail(items), Append(done, e))

\* the categories of a list of emissions
CategoriesOf(item_emissions) ==
  {item_emissions[k].category : k \in 1..Len(item_emissions)}

\* the report of calculate_footprint (carbon_service.py:76-87), without its
\* recommendations
Report(items, item_emissions) ==
  LET total_emissions ==
        SumSeq([k \in 1..Len(item_emissions) |-> item_emissions[k].total_co2])
      OfCategory(cat) ==
        SelectSeq(item_emissions, LAMBDA e : e.category = cat)
  IN [total_emissions_kg |-> total_emissions,
      emissions_by_item |-> item_emissions,
      emissions_by_category |->
        [cat \in CategoriesOf(item_emissions) |->
           SumSeq([k \in 1..Len(OfCategory(cat)) |-> OfCategory(cat)[k].total_co2])],
      sustainability_score |-> CalculateSustainabilityScore(item_emissions),
      summary |->
        [total_items |-> Len(items),
         high_impact_items |->
           Cardinality({k \in 1..Len(item_emissions) :
                          item_emissions[k].impact_level = "high"}),
         average_per_item |->
           IF items = <<>> THEN 0 ELSE RoundDiv(total_emissions, Len(items))]]

InvoiceItem(name, quantity, price) ==
  [name |-> name, quantity |-> quantity, price |-> price]

\* items handed to the carbon service: every name, 10 units at 2.10 each,
\* and one item without a price
CarbonItems ==
  {InvoiceItem(n, 1000, 210) : n \in ItemNames}
    \cup {InvoiceItem("Quinoa", 100, 0)}

\* items in a list handed to calculate_footprint
MaxReportItems == 2

CarbonLists == {<<>>} \cup SeqsUpTo(CarbonItems, MaxReportItems)

\* await self._calculate_item_emissions(item)
CalculateItemEmissionsCall(item) ==
  /\ carbon' = EstimateAll(carbon, <<item>>, <<>>).carbon
  /\ UNCHANGED <<parser, arg, ret, invoices, background_tasks>>

NextCarbon == \E item \in CarbonItems : CalculateItemEmissionsCall(item)

SpecCarbon == Init /\ [][NextCarbon]_vars

\* C17: whatever calls came between, a name handed to the carbon service
\* twice got the same carbon intensity and the same category both times:
\* no name has ever got two different answers.
C17_MatchingDeterministic ==
  \A n \in ItemNames : Cardinality(carbon.calls[n].answers) <= 1

\* "Imported Salmon" and "Oil" were each handed in more than once, with
\* calls for other names in between, and each has one answer
C17_Witness ==
  /\ carbon.calls["Imported Salmon"].times = "more"
  /\ carbon.calls["Imported Salmon"].answers =
       {[carbon_intensity |-> 1785, category |-> "other"]}
  /\ carbon.calls["Oil"].times = "more"
  /\ carbon.calls["Oil"].answers = {[carbon_intensity |-> 540, category |-> "other"]}
  /\ carbon.calls["Ground Beef"].times = "once"

InitScore ==
  InitParser /\ InitDb /\ InitCarbon /\ arg \in CarbonLists /\ ret = None

\* await carbon_service.calculate_footprint(items)
CalculateFootprintStep ==
  /\ ret = None
  /\ \E r \in {EstimateAll(carbon, arg, <<>>)} :
       /\ ret' = Some(Report(arg, r.item_emissions))
       /\ carbon' = r.carbon
  /\ UNCHANGED <<parser, arg, invoices, background_tasks>>

SpecScore == InitScore /\ [][CalculateFootprintStep]_vars

\* the score the claim gives an item: 80, 50 or 20 by impact, 15 more for
\* "local" in the name and 10 more for "organic", at most 100
ClaimedItemScore(e) ==
  LET base == CASE e.impact_level = "low" -> 80
                [] e.impact_level = "medium" -> 50
                [] e.impact_level = "high" -> 20
      bonus == (IF Contains(Lower(e.name), "local") THEN 15 ELSE 0)
                 + (IF Contains(Lower(e.name), "organic") THEN 10 ELSE 0)
  IN IF base + bonus > 100 THEN 100 ELSE base + bonus

ClaimedTotal(es) == SumSeq([k \in 1..Len(es) |-> ClaimedItemScore(es[k])])

\* C18 as stated: the score is an integer from 0 to 100, 50 without items,
\* and otherwise the mean of the scores of the items: the score times the
\* number of items is the sum of their scores.
C18_ScoreIsMean ==
  ret # None =>
    LET es == ret[1].emissions_by_item
        score == ret[1].sustainability_score
    IN /\ score \in 0..100
       /\ es = <<>> => score = 50
       /\ es # <<>> => score * Len(es) = ClaimedTotal(es)

\* C18 as amended: the score is an integer from 0 to 100, 50 without items,
\* and otherwise the mean of the scores of the items with its fraction cut
\* off.
C18_ScoreIsMeanRoundedDown ==
  ret # None =>
    LET es == ret[1].emissions_by_item
        score == ret[1].sustainability_score
    IN /\ score \in 0..100
       /\ es = <<>> => score = 50
       /\ es # <<>> =>
            /\ score * Len(es) <= ClaimedTotal(es)
            /\ ClaimedTotal(es) < (score + 1) * Len(es)

\* a report on "Organic Local Spinach" (80 + 15 + 10, capped at 100) and
\* "Imported Salmon" (50) scores 75
C18_Witness ==
  /\ ret # None
  /\ Len(arg) = 2
  /\ arg[1].name = "Organic Local Spinach"
  /\ arg[2].name = "Imported Salmon"
  /\ ret[1].emissions_by_item[1].impact_level = "low"
  /\ ret[1].emissions_by_item[2].impact_level = "medium"
  /\ ret[1].sustainability_score = 75

-----------------------------------------------------------------------------
\* C21 as stated: for an output that is a bare JSON object, a JSON object in
\* a code fence, or a JSON object with prose around it,
\* _extract_json_from_response returns that object and raises nothing.
C21_JsonRecovered ==
  \A c \in Callers :
    (/\ gen[c] # <<>>
     /\ gen[c][1].k = "ok"
     /\ gen[c][1].out.shape \in {"bare", "fenced", "prose"}) =>
      ExtractJsonFromResponse(gen[c][1].out) =
        [raised |-> FALSE, doc |-> Some(gen[c][1].out.doc)]

\* the categories the prompt asks the model for
KnownCategories ==
  {"protein", "vegetables", "dairy", "grains", "beverages", "other"}

\* C22 as stated: after validation the category of every item is one of
\* protein, vegetables, dairy, grains, beverages, other, and so is every key
\* of categorized_items.
C22_CategoriesKnown ==
  (ret # None /\ ~ ret[1].raised) =>
    /\ \A i \in 1..Len(ret[1].value.items) :
         ret[1].value.items[i].category \in KnownCategories
    /\ DOMAIN ret[1].value.categorized_items \subseteq KnownCategories

\* the tolerance of row grouping, in position units (ocr_service.py:213)
Tolerance == 10

\* C23 as stated: two accepted fragments whose vertical centres differ by
\* less than the tolerance are in the same output row, so no two rows of
\* the output hold fragments that close to each other.
C23_CloseFragmentsShareRow ==
  ret # None =>
    \A i, j \in 1..Len(ret[1]) :
      i < j =>
        \A a \in ret[1][i].ys : \A b \in ret[1][j].ys :
          b - a >= Tolerance \/ a - b >= Tolerance

-----------------------------------------------------------------------------
(* ImprovedInvoiceParser on texts of several lines *)

\* the lines a text handed to the heuristic parser is made of: the header of
\* the table, two item rows, a row no pattern matches, a row of the totals
HeuristicLines ==
  { <<"Qty", "Unit", "Item", "Description", "Total">>,
    <<"10", "lb", "Kale", "$2.10">>,
    <<"10", "lb", "Beef", "$5.00">>,
    <<"Bistro", "June", "28,", "2025">>,
    <<"Subtotal:", "$378.85">> }

\* lines in a text handed to the heuristic parser
MaxRows == 5

InitHeuristic ==
  /\ InitParser /\ InitDb /\ InitCarbon
  /\ arg \in SeqsUpTo(HeuristicLines, MaxRows)
  /\ ret = None

\* parser.parse_invoice(ocr_text): the lines it hands to the extractors, and
\* its result
ImprovedParseInvoiceStep ==
  /\ ret = None
  /\ ret' = Some([op |-> "parse_invoice",
                  lines |-> CleanedLines(arg),
                  items |-> ImprovedParseInvoice(arg).items])
  /\ UNCHANGED <<parser, arg, invoices, carbon, background_tasks>>

\* self._extract_table_items(lines)
ExtractTableItemsStep ==
  /\ ret = None
  /\ ret' = Some([op |-> "_extract_table_items",
                  lines |-> arg,
                  items |-> ExtractTableItems(arg)])
  /\ UNCHANGED <<parser, arg, invoices, carbon, background_tasks>>

NextHeuristic == ImprovedParseInvoiceStep \/ ExtractTableItemsStep

SpecHeuristic == InitHeuristic /\ [][NextHeuristic]_vars

\* C24 as stated: for a text of several lines, the sequence of lines
\* parse_invoice hands to vendor, total, date and table extraction has one
\* entry per line of the text, in the order of the text.
C24_LinesPreserved ==
  (ret # None /\ ret[1].op = "parse_invoice") => ret[1].lines = arg

\* the rows at or after the start of the table that hold a word of the
\* totals section
StopRows(lines, start) ==
  {i \in start..Len(lines) : \E k \in 1..Len(lines[i]) : lines[i][k] \in StopToks}

\* the rows the claim lets items come from: from the start of the table to
\* the row before the first row of the totals section
RowsBeforeTotals(lines) ==
  IF TableStart(lines) = None THEN {}
  ELSE LET start == TableStart(lines)[1]
           stops == StopRows(lines, start)
       IN IF stops = {} THEN start..Len(lines) ELSE start..(Least(stops) - 1)

\* the rows among them that give an item
ItemRows(lines) ==
  {i \in RowsBeforeTotals(lines) :
     LineLen(lines[i]) >= 10 /\ ParseTableRow(lines[i]) # None}

\* the i-th smallest element of a set of numbers
RECURSIVE Nth(_, _)
Nth(S, i) == IF i = 1 THEN Least(S) ELSE Nth(S \ {Least(S)}, i - 1)

\* C25: the items _extract_table_items returns are the items of the rows
\* before the first row of the totals section, one for each such row that
\* matches a pattern, in the order of the rows: nothing comes from the
\* totals row or from a row after it, and a row that matches no pattern is
\* passed over without ending the scan.
C25_StopsAtTotals ==
  (ret # None /\ ret[1].op = "_extract_table_items") =>
    LET rows == ItemRows(arg)
    IN /\ Len(ret[1].items) = Cardinality(rows)
       /\ \A k \in 1..Len(ret[1].items) :
            ret[1].items[k] = ParseTableRow(arg[Nth(rows, k)])[1]

\* an item row, a row no pattern matches, an item row, the subtotal and
\* one more item row: the result holds the first two items
C25_Witness ==
  /\ ret # None /\ ret[1].op = "_extract_table_items"
  /\ arg = << <<"10", "lb", "Kale", "$2.10">>,
              <<"Bistro", "June", "28,", "2025">>,
              <<"10", "lb", "Beef", "$5.00">>,
              <<"Subtotal:", "$378.85">>,
              <<"10", "lb", "Kale", "$2.10">> >>
  /\ Len(ret[1].items) = 2
  /\ ret[1].items[1].name = "Kale"
  /\ ret[1].items[2].name = "Beef"

\* the keys of the table that name an ingredient: all but the last four
ModifierKeys == {"organic", "local", "imported", "default"}

\* the name has an exact or substring relation to the key of an ingredient
RelatedToIngredient(name) ==
  LET item_name == Strip(Lower(name))
  IN /\ item_name # ""
     /\ \E k \in 1..Len(CarbonIntensities) :
          /\ CarbonIntensities[k][1] \notin ModifierKeys
          /\ \/ Contains(item_name, CarbonIntensities[k][1])
             \/ Contains(CarbonIntensities[k][1], item_name)

\* what rules 3 and 4 give a name: the intensity of its keyword group, or
\* the default
FallThrough(name) ==
  LET item_name == Strip(Lower(name))
  IN IF AnyIn({"beef", "meat", "steak"}, item_name) THEN 6000
     ELSE IF AnyIn({"chicken", "poultry"}, item_name) THEN 690
     ELSE IF AnyIn({"milk", "cream", "dairy"}, item_name) THEN 320
     ELSE IF AnyIn({"vegetable", "lettuce", "green"}, item_name) THEN 100
     ELSE 200

\* C26 as stated: a name with no exact or substring relation to the key of
\* an ingredient, the empty name included, is resolved by rule 3 or rule 4
\* and never gets the intensity of an ingredient.
C26_UnrelatedFallsThrough ==
  \A n \in ItemNames :
    ~ RelatedToIngredient(n) =>
      \A a \in carbon.calls[n].answers : a.carbon_intensity = FallThrough(n)

\* the name is resolved by a substring match: no key equals it and some key
\* holds it or is held by it
SubstringMatched(table, name) ==
  LET item_name == Strip(Lower(name))
  IN /\ \A k \in 1..Len(table) : table[k][1] # item_name
     /\ PartialMatches(table, item_name) # {}

\* the factors of the words a name contains, each in tenths, multiplied
ClaimedFactors(name) ==
  LET item_name == Strip(Lower(name))
  IN (IF Contains(item_name, "local") THEN 3 ELSE 10)
       * (IF Contains(item_name, "organic") THEN 8 ELSE 10)
       * (IF Contains(item_name, "imported") THEN 15 ELSE 10)

\* C27 as stated: on a substring match the intensity is the value of the
\* matched key times 0.3 for "local", 0.8 for "organic" and 1.5 for
\* "imported", the factor of every one of these words the name contains.
C27_EveryModifierApplied ==
  \A n \in ItemNames :
    SubstringMatched(carbon.carbon_intensities, n) =>
      \A a \in carbon.calls[n].answers :
        LET item_name == Strip(Lower(n))
            key == Least(PartialMatches(carbon.carbon_intensities, item_name))
        IN a.carbon_intensity * 1000 =
             carbon.carbon_intensities[key][2] * ClaimedFactors(n)

-----------------------------------------------------------------------------
(* The routers on the rows: reprocessing and the carbon analysis of an     *)
(* invoice.  ret holds the last answer of these two endpoints.             *)

\* the answer of an endpoint: the status code and, with 200 from
\* GET /carbon/invoice/{invoice_id}, the key "carbon_analysis"
Response(op, invoice_id, status_code, carbon_analysis) ==
  [op |-> op, invoice_id |-> invoice_id, status_code |-> status_code,
   carbon_analysis |-> carbon_analysis]

\* reprocess_invoice_with_llm (invoice.py:414-500) for row i, with what the
\* probe and the generation request give
ReprocessInvoiceWithLlm(i, r, g) ==
  LET invoice == invoices[i]
  IN
  IF invoice.processing_status = "absent"
  THEN UNCHANGED vars
  ELSE IF invoice.ocr_text = None \/ TextLen(invoice.ocr_text[1]) = 0
  THEN UNCHANGED vars
  ELSE
    \E p \in {ParseInvoice(model, invoice.ocr_text[1], r, g)} :
    \E res \in {ProcessInvoiceFromText(p.raised, p.value)} :
      /\ model' = p.model
      /\ IF ~ res.success
         THEN UNCHANGED invoices
         ELSE /\ invoices' = [invoices EXCEPT ![i] =
                   [@ EXCEPT !.parsed_data =
                                Some([parsing_method |-> None, items |-> res.items]),
                             !.total_amount = res.total_amount,
                             !.vendor_name = res.vendor_name,
                             !.invoice_date =
                                IF res.invoice_date = None THEN @
                                ELSE IF ParseInvoiceDate(res.invoice_date) = None
                                     THEN @
                                     ELSE ParseInvoiceDate(res.invoice_date),
                             !.processing_status = "completed"]]
      /\ UNCHANGED <<ncalls, pc, text, regex_result, probe, gen, requests,
                     outcome, result, arg, ret, carbon, background_tasks>>

\* await carbon_service.calculate_footprint(items): the report, and the
\* service after the call
CalculateFootprint(c, items) ==
  LET r == EstimateAll(c, items, <<>>)
  IN [report |-> Report(items, r.item_emissions), carbon |-> r.carbon]

\* get_invoice_carbon_footprint (carbon.py:108-154) for row i
GetInvoiceCarbonFootprint(i) ==
  LET invoice == invoices[i]
      op == "get_invoice_carbon_footprint"
  IN
  IF invoice.processing_status = "absent"
  THEN /\ ret' = Some(Response(op, i, 404, None))
       /\ UNCHANGED <<parser, arg, invoices, carbon, background_tasks>>
  ELSE IF invoice.carbon_footprint # None
  THEN /\ ret' = Some(Response(op, i, 200, invoice.carbon_footprint))
       /\ UNCHANGED <<parser, arg, invoices, carbon, background_tasks>>
  ELSE IF invoice.parsed_data # None
  THEN \E f \in {CalculateFootprint(carbon, invoice.parsed_data[1].items)} :
         /\ invoices' = [invoices EXCEPT ![i].carbon_footprint = Some(f.report)]
         /\ carbon' = f.carbon
         /\ ret' = Some(Response(op, i, 200, Some(f.report)))
         /\ UNCHANGED <<parser, arg, background_tasks>>
  ELSE /\ ret' = Some(Response(op, i, 400, None))
       /\ UNCHANGED <<parser, arg, invoices, carbon, background_tasks>>

NextPipeline ==
  \/ \E i \in InvoiceIds : UploadInvoice(i)
  \/ \E i \in InvoiceIds, t \in OcrTexts, r \in PipelineProbes,
        g \in PipelineGenerations : ProcessInvoiceBackground(i, t, r, g)
  \/ ProcessInvoiceBackgroundTypeError
  \/ \E i \in InvoiceIds : ReprocessInvoice(i)
  \/ \E i \in InvoiceIds, r \in PipelineProbes, g \in PipelineGenerations :
        ReprocessInvoiceWithLlm(i, r, g)
  \/ \E i \in InvoiceIds : GetInvoiceCarbonFootprint(i)

SpecPipeline == Init /\ [][NextPipeline]_vars

\* running the first queued task
RunBackgroundTask ==
  \/ \E i \in InvoiceIds, t \in OcrTexts, r \in PipelineProbes,
        g \in PipelineGenerations : ProcessInvoiceBackground(i, t, r, g)
  \/ ProcessInvoiceBackgroundTypeError

\* the pipeline with its scheduling: the tasks added to BackgroundTasks are
\* run once the response has been sent, so a queued task does not wait for
\* ever
SpecPipelineLive == SpecPipeline /\ WF_vars(RunBackgroundTask)

\* C28 as stated: every invoice that enters "pending", by upload or by
\* POST /{invoice_id}/reprocess, eventually reaches "completed" or "failed":
\* no invoice stays "pending" for ever.
C28_PendingEnds ==
  \A i \in InvoiceIds :
    (invoices[i].processing_status = "pending")
      ~> (invoices[i].processing_status \in {"completed", "failed"})

-----------------------------------------------------------------------------
(* The heuristic stage of parse_invoice and line items *)

\* the tags of a result that is the heuristic dictionary
HeuristicTags == {Some("regex-only"), Some("regex-fallback"), Some("regex-except")}

\* C29: a result parse_invoice returns from the heuristic stage (service
\* unavailable, extraction null, or exception) has no item and item_count 0,
\* whatever the text; a result with items is tagged 'llm+regex'.
C29_HeuristicHasNoItems ==
  \A c \in Callers :
    (Done(c) /\ result[c] # None) =>
      /\ result[c][1].parsing_method \in HeuristicTags =>
           /\ result[c][1].items = <<>>
           /\ result[c][1].item_count = 0
           /\ DOMAIN result[c][1].categorized_items = {}
      /\ result[c][1].items # <<>> =>
           result[c][1].parsing_method = Some("llm+regex")

\* C29 happens: the sample invoice, which has item rows and a total, came
\* back from the heuristic stage without items, and another call came back
\* from the model with items
C29_Witness ==
  \E c, d \in Callers :
    /\ Done(c) /\ text[c] = SampleInvoice
    /\ result[c] # None
    /\ result[c][1].parsing_method = Some("regex-fallback")
    /\ result[c][1].total_amount # None
    /\ result[c][1].items = <<>>
    /\ Done(d) /\ result[d] # None
    /\ result[d][1].parsing_method = Some("llm+regex")
    /\ result[d][1].items # <<>>

-----------------------------------------------------------------------------
(* The carbon analysis served for an invoice *)

\* the analysis of the items row i holds when a request arrives; None for a
\* row without parsed_data
CurrentAnalysis(i) ==
  IF invoices[i].parsed_data = None THEN None
  ELSE Some(CalculateFootprint(carbon, invoices[i].parsed_data[1].items).report)

\* GET /carbon/invoice/{invoice_id} has just answered 200 for row i
Served(i) ==
  /\ ret # None
  /\ ret[1].op = "get_invoice_carbon_footprint"
  /\ ret[1].invoice_id = i
  /\ ret[1].status_code = 200

\* C30 as stated: whatever requests and reprocessing came before, an analysis
\* GET /carbon/invoice/{invoice_id} returns is the analysis of the items the
\* invoice holds at that moment, never one of an earlier version of them.
C30_AnalysisIsCurrent ==
  [][\A i \in InvoiceIds :
       (ret' # ret /\ Served(i)') =>
         ret'[1].carbon_analysis = CurrentAnalysis(i)]_vars

====
